---- MODULE Spec2Model ----
(***************************************************************************)
(* BS9295 buried-pipe utilisation scripts: FormerCalcTest.py (FCT),        *)
(* StreamlitBS9295.py (ST), Pipe2Excel.py (P2E), PipeUtilisation.py (PU).  *)
(*                                                                         *)
(* Python floats are modelled as decimal floating-point numbers with a     *)
(* seven-digit mantissa, rounded to nearest: a record [m, e] with value    *)
(* m * 10^e, m = 0 (and e = 0) or 10^6 <= |m| < 10^7.  Every decimal       *)
(* literal of the scripts (0.675, 19.6, 0.083, ...) is exact in this       *)
(* representation.  A raised exception is a value too: [m |-> 0, e |-> 1]  *)
(* is ZeroDivisionError, [m |-> 0, e |-> 2] is the complex number Python   *)
(* produces for a negative base under a fractional power (which max()      *)
(* then rejects with TypeError).  Both propagate through the arithmetic.   *)
(***************************************************************************)
EXTENDS Integers, Sequences, FiniteSets, TLC

----------------------------------------------------------------------------
(* Decimal floating point                                                  *)

MantLo == 10^6
MantHi == 10^7

\* A value that is used more than once is handed on as an operator argument
\* throughout: an argument is evaluated once.

Abs(x) == IF x < 0 THEN -x ELSE x
Sgn(x) == IF x < 0 THEN -1 ELSE IF x > 0 THEN 1 ELSE 0
Min(a, b) == IF a < b THEN a ELSE b

ZERO == [m |-> 0, e |-> 0]
ZeroDivisionError == [m |-> 0, e |-> 1]
ComplexValue == [m |-> 0, e |-> 2]
\* Python's None (no invert level supplied) and numpy's nan
None == [m |-> 0, e |-> 3]
NaN == [m |-> 0, e |-> 4]

IsErr(x) == x.m = 0 /\ x.e \in {1, 2}
\* the exception (or complex operand) an operation on x and y inherits
ErrOf(x, y) == IF IsErr(x) THEN x ELSE y

\* number of decimal digits of a > 0 beyond seven
RECURSIVE Excess(_)
Excess(a) == IF a < MantHi THEN 0 ELSE 1 + Excess(a \div 10)

RECURSIVE ScaleUp(_, _)
ScaleUp(a, e) == IF a >= MantLo THEN [m |-> a, e |-> e] ELSE ScaleUp(a * 10, e - 1)

Carry(r, e) == IF r = MantHi THEN [m |-> MantLo, e |-> e + 1]
               ELSE [m |-> r, e |-> e]

RoundOff(a, e, k) == Carry((a + (10^k) \div 2) \div (10^k), e + k)

\* |value| = a * 10^e, a > 0, rounded to nearest on seven digits
RoundMag(a, e) ==
    IF a < MantHi THEN ScaleUp(a, e) ELSE RoundOff(a, e, Excess(a))

Signed(s, r) == [m |-> s * r.m, e |-> r.e]

Norm(m, e) == IF m = 0 THEN ZERO ELSE Signed(Sgn(m), RoundMag(Abs(m), e))

\* an integer, and a decimal literal n * 10^e
DI(n) == Norm(n, 0)
D(n, e) == Norm(n, e)

DNeg(x) == IF IsErr(x) THEN x ELSE [m |-> -x.m, e |-> x.e]

MulParts(ah, al, bh, bl) ==
    ah * bh * 10 + ((ah * bl + al * bh) * 10 + (al * bl) \div 100) \div 1000

\* floor(a * b / 10^5) for 0 <= a, b < 10^7, without leaving 32 bits
MulHi(a, b) == MulParts(a \div 1000, a % 1000, b \div 1000, b % 1000)

DMul(x, y) ==
    IF IsErr(x) \/ IsErr(y) THEN ErrOf(x, y)
    ELSE IF x.m = 0 \/ y.m = 0 THEN ZERO
    ELSE Norm(Sgn(x.m) * Sgn(y.m) * MulHi(Abs(x.m), Abs(y.m)), x.e + y.e + 5)

\* n further digits of the quotient q, remainder r, divisor b
RECURSIVE LongDiv(_, _, _, _)
LongDiv(q, r, b, n) ==
    IF n = 0 THEN q
    ELSE LongDiv(q * 10 + (r * 10) \div b, (r * 10) % b, b, n - 1)

DDiv(x, y) ==
    IF IsErr(x) \/ IsErr(y) THEN ErrOf(x, y)
    ELSE IF y.m = 0 THEN ZeroDivisionError
    ELSE IF x.m = 0 THEN ZERO
    ELSE Norm(Sgn(x.m) * Sgn(y.m)
                  * LongDiv(Abs(x.m) \div Abs(y.m), Abs(x.m) % Abs(y.m),
                            Abs(y.m), 8),
              x.e - y.e - 8)

ShiftDown(v, k) == Sgn(v) * (Abs(v) \div (10^k))

\* hi + lo for hi.e >= lo.e, with one guard digit
AddAligned(hi, lo) ==
    IF hi.e - lo.e > 8 THEN hi
    ELSE Norm(hi.m * 10 + ShiftDown(lo.m * 10, hi.e - lo.e), hi.e - 1)

DAdd(x, y) ==
    IF IsErr(x) \/ IsErr(y) THEN ErrOf(x, y)
    ELSE IF x.m = 0 THEN y
    ELSE IF y.m = 0 THEN x
    ELSE IF x.e >= y.e THEN AddAligned(x, y) ELSE AddAligned(y, x)

DSub(x, y) == DAdd(x, DNeg(y))

\* comparisons of two numbers (never applied to an exception)
DLt(x, y) == DSub(x, y).m < 0
DGt(x, y) == DLt(y, x)
DLe(x, y) == ~DLt(y, x)
DGe(x, y) == ~DLt(x, y)

\* x^n for a small natural n
RECURSIVE DPowInt(_, _)
DPowInt(x, n) == IF n = 0 THEN DI(1) ELSE DMul(x, DPowInt(x, n - 1))

Sq(x) == DMul(x, x)
Pow10th(x) == Sq(DMul(Sq(Sq(x)), x))

\* the first n decimals of log10(x), 1 <= x < 10: the next decimal of the
\* logarithm is the decade of p = x^10
RECURSIVE Log10Frac(_, _)
RECURSIVE LogStep(_, _)
LogStep(p, n) ==
    (p.e + 6) * 10^(n - 1) + Log10Frac([m |-> p.m, e |-> -6], n - 1)
Log10Frac(x, n) == IF n = 0 THEN 0 ELSE LogStep(Pow10th(x), n)

\* log10(x) * 10^5 for x > 0
LogFix(x) == (x.e + 6) * 10^5 + Log10Frac([m |-> x.m, e |-> -6], 5)

\* mantissas of 10^(1/10), 10^(1/100), ..., 10^(1/100000)
Root10 == <<1258925, 1023293, 1002305, 1000230, 1000023>>

RECURSIVE Exp10Frac(_, _)
Exp10Frac(F, k) ==
    IF k = 0 THEN DI(1)
    ELSE DMul(DPowInt([m |-> Root10[k], e |-> -6], F % 10),
              Exp10Frac(F \div 10, k - 1))

Shifted(r, n) == [m |-> r.m, e |-> r.e + n]

\* 10^(Y / 10^5)
Exp10Fix(Y) == Shifted(Exp10Frac(Y % 10^5, 5), Y \div 10^5)

\* x ** (p / q), Python's float power
DPow(x, p, q) ==
    IF IsErr(x) THEN x
    ELSE IF x.m = 0 THEN ZERO
    ELSE IF x.m < 0 THEN ComplexValue
    ELSE Exp10Fix((LogFix(x) * p) \div q)

Greater(a, b) == IF DGt(b, a) THEN b ELSE a

RECURSIVE NumMax(_)
NumMax(s) == IF Len(s) = 1 THEN s[1] ELSE Greater(s[1], NumMax(Tail(s)))

\* the first exception (or complex value) among the elements of a list, ZERO
\* if there is none
ListErr(s) ==
    IF \E n \in 1..Len(s) : IsErr(s[n])
    THEN s[CHOOSE n \in 1..Len(s) :
               IsErr(s[n]) /\ \A q \in 1..(n - 1) : ~IsErr(s[q])]
    ELSE ZERO

\* max() of a non-empty list: an exception among the operands was raised
\* before the call, a complex operand makes max() raise TypeError
DMax(s) == IF IsErr(ListErr(s)) THEN ListErr(s) ELSE NumMax(s)

\* f"{x:.1f}": x rounded to one decimal
Round1(x) ==
    IF IsErr(x) \/ x.m = 0 \/ x.e >= -1 THEN x
    ELSE IF -1 - x.e > 7 THEN ZERO
    ELSE Norm(Sgn(x.m) * ((Abs(x.m) + (10^(-1 - x.e)) \div 2)
                              \div (10^(-1 - x.e))), -1)

\* f"{x:.2f}": x rounded to two decimals
Round2(x) ==
    IF IsErr(x) \/ x.m = 0 \/ x.e >= -2 THEN x
    ELSE IF -2 - x.e > 7 THEN ZERO
    ELSE Norm(Sgn(x.m) * ((Abs(x.m) + (10^(-2 - x.e)) \div 2)
                              \div (10^(-2 - x.e))), -2)

----------------------------------------------------------------------------
(* Module constants and tables                                             *)

\* FormerCalcTest.py
FCT_Const ==
    [soil_modulus |-> DI(3), embed_modulus |-> DI(10),
     perforation_red |-> D(95, -2), soil_density |-> D(196, -1),
     water_density |-> DI(10), long_modulus |-> DI(150),
     short_modulus |-> DI(800), deflection_coeff |-> D(83, -3),
     deflection_lag |-> DI(1), oval_limit |-> DI(5),
     gamma_uf |-> D(11, -1), gamma_f |-> D(9, -1),
     BUCKLING_FOS_MIN |-> DI(2), BUCKLING_FOS_MIN_AIR |-> D(15, -1),
     tamping_depth |-> D(4, -1),
     INITIAL_OVAL |-> (0 :> D(125, -2) @@ 1 :> D(125, -2))]

\* StreamlitBS9295.py: the DEFAULT_ constants; params holds the sidebar's
\* default values
ST_Const ==
    [soil_modulus |-> D(25, -1), embed_modulus |-> DI(10),
     perforation_red |-> D(95, -2), soil_density |-> D(196, -1),
     water_density |-> DI(10), long_modulus |-> DI(150),
     short_modulus |-> DI(800), deflection_coeff |-> D(83, -3),
     deflection_lag |-> DI(1), oval_limit |-> DI(3),
     gamma_uf |-> D(11, -1), gamma_f |-> D(9, -1),
     BUCKLING_FOS_MIN |-> DI(2), BUCKLING_FOS_MIN_AIR |-> D(15, -1),
     tamping_depth |-> D(4, -1),
     INITIAL_OVAL |-> (0 :> D(5, -1) @@ 1 :> D(215, -2))]

\* the constants of UtilisationExcel.py with the native soil modulus of
\* FormerCalcTest.py
UE_Const_soil3 ==
    [soil_modulus |-> DI(3), embed_modulus |-> DI(10),
     perforation_red |-> D(95, -2), soil_density |-> D(196, -1),
     long_modulus |-> DI(150), deflection_coeff |-> D(83, -3),
     deflection_lag |-> DI(1), oval_limit |-> DI(3),
     INITIAL_OVAL |-> (0 :> D(5, -1) @@ 1 :> D(215, -2))]

\* UtilisationExcel.py
UE_Const ==
    [soil_modulus |-> DI(10), embed_modulus |-> DI(10),
     perforation_red |-> D(95, -2), soil_density |-> D(196, -1),
     long_modulus |-> DI(150), deflection_coeff |-> D(83, -3),
     deflection_lag |-> DI(1), oval_limit |-> DI(3),
     INITIAL_OVAL |-> (0 :> D(5, -1) @@ 1 :> D(215, -2))]

\* StreamlitBS9295.py: the dictionary the sidebar fills; its functions read
\* it at every call
VARIABLE params

\* the design parameters a script's functions read: StreamlitBS9295.py reads
\* params, the other scripts their module constants
Const(v) == IF v = "ST" THEN params
            ELSE IF v = "UE" THEN UE_Const ELSE FCT_Const

\* Pipe2Excel.py
P2E_Const ==
    [PERFORATION_REDUCTION |-> D(95, -2), WATER_DENSITY |-> DI(10),
     SOIL_DENSITY |-> D(196, -1), PIPE_MODULUS |-> DI(150),
     DEFLECTION_COEFF |-> D(83, -3), SOIL_MODULUS |-> DI(10),
     EMBED_MODULUS |-> DI(10),
     INITIAL_OVAL |-> (0 :> D(5, -1) @@ 1 :> D(215, -2)),
     PIPE_WEIGHT |-> (0 :> D(25, -2) @@ 1 :> D(16, -2))]

\* the shipped tables (the same in every script)
\* a diameter table in which the second size is entered twice
diameters_repeated == <<110, 125, 125, 180, 200, 225, 250, 280, 315, 355, 400,
                        450, 500, 560, 630>>

diameters == <<110, 125, 160, 180, 200, 225, 250, 280, 315, 355, 400, 450,
               500, 560, 630>>
sdr11 == <<D(100, -1), D(114, -1), D(146, -1), D(164, -1), D(182, -1),
           D(205, -1), D(228, -1), D(255, -1), D(287, -1), D(323, -1),
           D(364, -1), D(409, -1), D(454, -1), D(508, -1), D(572, -1)>>
sdr17 == <<D(63, -1), D(71, -1), D(91, -1), D(102, -1), D(114, -1),
           D(128, -1), D(142, -1), D(159, -1), D(179, -1), D(201, -1),
           D(227, -1), D(255, -1), D(283, -1), D(317, -1), D(357, -1)>>
crown_depths == <<D(675, -3), D(775, -3), D(875, -3), D(975, -3),
                  D(1075, -3), D(1175, -3), D(1275, -3), D(1375, -3),
                  D(1575, -3), D(1775, -3), D(1975, -3), D(2175, -3),
                  D(2675, -3), D(3175, -3)>>
surcharge_pressure == <<DI(690), DI(480), DI(340), DI(245), DI(185), DI(140),
                        DI(110), DI(95), DI(75), DI(65), DI(50), DI(40),
                        DI(25), DI(15)>>

\* class labels the other way round
SdrType_swapped(sdr_idx) == IF sdr_idx = 0 THEN "SDR17" ELSE "SDR11"

SdrType(sdr_idx) == IF sdr_idx = 0 THEN "SDR11" ELSE "SDR17"

\* StreamlitBS9295.py PIPE_WEIGHTS: kg/m per diameter, times 0.00980665
ST_KgPerM ==
    [SDR17 |-> <<D(208, -2), D(266, -2), D(435, -2), D(548, -2), D(679, -2),
                 D(855, -2), D(1060, -2), D(1320, -2), D(1670, -2),
                 D(2120, -2), D(2690, -2), D(3400, -2), D(4190, -2),
                 D(5250, -2), D(6650, -2)>>,
     SDR11 |-> <<D(314, -2), D(408, -2), D(667, -2), D(842, -2), D(1040, -2),
                 D(1310, -2), D(1620, -2), D(2030, -2), D(2570, -2),
                 D(3260, -2), D(4140, -2), D(5240, -2), D(6460, -2),
                 D(8110, -2), D(10250, -2)>>]

PIPE_WEIGHTS == [SDR11 |-> D(25, -2), SDR17 |-> D(16, -2)]

get_pipe_weight(diameter, sdr_type) ==
    IF \E n \in 1..Len(diameters) : diameters[n] = diameter
    THEN DMul(ST_KgPerM[sdr_type][CHOOSE n \in 1..Len(diameters) :
                                     diameters[n] = diameter],
              D(980665, -8))
    ELSE PIPE_WEIGHTS[sdr_type]

\* pipe_weight as calculate_all_checks looks it up
PipeWeight(v, dia, sdr_type) ==
    IF v = "ST" THEN get_pipe_weight(dia, sdr_type) ELSE PIPE_WEIGHTS[sdr_type]

----------------------------------------------------------------------------
(* FormerCalcTest.py / StreamlitBS9295.py: functions                       *)

\* the locals MD, I and stiffness_val of pipe_stiffness
PS_MD(OD, t) == DSub(OD, t)
PS_I(t) == DDiv(DPowInt(t, 3), DI(12))
PS_stiffness_val(OD, t, modulus) ==
    DDiv(DMul(modulus, PS_I(t)), DPowInt(PS_MD(OD, t), 3))

\* pipe_stiffness(OD, t, modulus, perforated=True)
pipe_stiffness(v, OD, t, modulus, perforated) ==
    IF perforated
    THEN DMul(PS_stiffness_val(OD, t, modulus), Const(v).perforation_red)
    ELSE PS_stiffness_val(OD, t, modulus)

\* the denominator of Leonhardt's relation, BS9295 Eq (29), for
\* ratio = B_trench / D_pipe
LeonhardtDenomOf(ratio, E_soil, E_embed) ==
    DSub(DMul(DSub(D(1985, -3), DMul(D(456, -3), ratio)),
              DDiv(E_soil, E_embed)),
         DSub(DI(1), ratio))

LeonhardtDenom(B_trench, D_pipe, E_soil, E_embed) ==
    LeonhardtDenomOf(DDiv(B_trench, D_pipe), E_soil, E_embed)

LeonhardtNum(B_trench, D_pipe) ==
    DAdd(D(985, -3), DMul(D(544, -3), DDiv(B_trench, D_pipe)))

\* num / denom if denom != 0 else 1.0
GuardedQuotient(num, denom) ==
    IF IsErr(denom) THEN denom
    ELSE IF denom # ZERO THEN DDiv(num, denom) ELSE DI(1)

\* leonhardt_factor(B_trench, D_pipe, E_soil, E_embed)
leonhardt_factor(B_trench, D_pipe, E_soil, E_embed) ==
    GuardedQuotient(LeonhardtNum(B_trench, D_pipe),
                    LeonhardtDenom(B_trench, D_pipe, E_soil, E_embed))

\* ovalisation(total_pressure, stiffness, E_eff, sdr_idx)
ovalisation(v, total_pressure, stiffness, E_eff, sdr_idx) ==
    DAdd(Const(v).INITIAL_OVAL[sdr_idx],
         DMul(DDiv(DMul(DMul(Const(v).deflection_coeff,
                             Const(v).deflection_lag), total_pressure),
                   DAdd(DMul(DI(8), stiffness), DMul(D(61, -3), E_eff))),
              DI(100)))

\* the locals W_soil, W_total, H_w and UPL of calculate_flotation
CF_W_soil(c, depth, OD_m) == DMul(DMul(c.soil_density, depth), OD_m)
CF_W_total(c, depth, pipe_weight, OD_m) ==
    DMul(c.gamma_f, DAdd(pipe_weight, CF_W_soil(c, depth, OD_m)))
\* a water head that takes the fallback for every falsy invert level
CF_H_w_truthy(depth, invert_level, OD_m) ==
    IF invert_level # None /\ invert_level # ZERO THEN invert_level
    ELSE DAdd(depth, DDiv(OD_m, DI(2)))
CF_H_w(depth, invert_level, OD_m) ==
    IF invert_level # None THEN invert_level
    ELSE DAdd(depth, DDiv(OD_m, DI(2)))
CF_UPL(c, depth, invert_level, OD_m) ==
    DMul(DMul(DMul(c.gamma_uf, c.water_density),
              CF_H_w(depth, invert_level, OD_m)), OD_m)
CF_Return(c, depth, pipe_weight, invert_level, OD_m) ==
    DMul(DDiv(CF_UPL(c, depth, invert_level, OD_m),
              CF_W_total(c, depth, pipe_weight, OD_m)), DI(100))

\* calculate_flotation(dia, depth, pipe_weight, invert_level=None)
calculate_flotation(v, dia, depth, pipe_weight, invert_level) ==
    CF_Return(Const(v), depth, pipe_weight, invert_level, DDiv(dia, DI(1000)))

\* a display string f"PASS ({x:.1f}%)" / f"FAIL ({x:.1f}%)", "FAIL (101%)",
\* "N/A"
Display(status, x) == [status |-> status, pct |-> x]

PassFail(util, shown) ==
    IF DGt(util, DI(1)) THEN Display("FAIL", Round1(shown))
                        ELSE Display("PASS", Round1(shown))

\* an overall status that fails a scenario from 1.0 on (>= in place of >)
overall_status_from_one(v, max_util) ==
    IF v = "ST"
    THEN IF DGe(max_util, DI(1)) THEN Display("FAIL", DI(101))
         ELSE Display("PASS", Round1(DMul(max_util, DI(100))))
    ELSE IF DGe(max_util, DI(1)) THEN DI(101) ELSE DMul(max_util, DI(100))

\* overall_status: FormerCalcTest.py line 187, StreamlitBS9295.py line 169
overall_status(v, max_util) ==
    IF v = "ST"
    THEN IF DGt(max_util, DI(1)) THEN Display("FAIL", DI(101))
         ELSE Display("PASS", Round1(DMul(max_util, DI(100))))
    ELSE IF DGt(max_util, DI(1)) THEN DI(101) ELSE DMul(max_util, DI(100))

DiaRecord(v, trench_width, C_L) ==
    [trench_width |-> trench_width, C_L |-> C_L,
     E_eff |-> DMul(DMul(Const(v).embed_modulus, C_L), DI(1000))]

\* a trench ten times as much wider than the pipe
DiaLocals_wide(v, dia) ==
    DiaRecord(v, dia + 3000,
              leonhardt_factor(DI(dia + 3000), DI(dia), Const(v).soil_modulus,
                               Const(v).embed_modulus))

\* the per-diameter part of calculate_all_checks
DiaLocals(v, dia) ==
    DiaRecord(v, dia + 300,
              leonhardt_factor(DI(dia + 300), DI(dia), Const(v).soil_modulus,
                               Const(v).embed_modulus))

SdrRecord(v, dia, thickness, sdr_idx, stiff_val) ==
    [sdr_type |-> SdrType(sdr_idx),
     pipe_weight |-> PipeWeight(v, dia, SdrType(sdr_idx)),
     stiff_val |-> stiff_val,
     stiff_kN |-> DMul(stiff_val, DI(1000)),
     stiff_buck_short |->
         pipe_stiffness(v, DI(dia), thickness, Const(v).short_modulus, FALSE),
     stiff_buck_long |->
         pipe_stiffness(v, DI(dia), thickness, Const(v).long_modulus, FALSE)]

\* the per-class part of calculate_all_checks
SdrLocals(v, dia, thickness, sdr_idx) ==
    SdrRecord(v, dia, thickness, sdr_idx,
              pipe_stiffness(v, DI(dia), thickness, Const(v).long_modulus,
                             TRUE))

\* critical buckling pressure with soil support (MN/m2)
P_cr(E_eff, stiff_buck) ==
    DMul(DMul(D(6, -1), DPow(DDiv(E_eff, DI(1000)), 67, 100)),
         DPow(stiff_buck, 33, 100))

\* an in-air buckling check that applies at every depth
AirAppliesAtAnyDepth(depth) == DGe(depth, depth)

\* whether the in-air buckling check applies at this depth
AirApplies(depth) == DLt(depth, D(15, -1))

\* util_checks without the ovalisation check
UtilChecks_less_ovalisation(depth, oval_util, flotation_util, buckling_soil_util, buckling_air_util) ==
    <<flotation_util, buckling_soil_util>>
        \o (IF AirApplies(depth) THEN <<buckling_air_util>> ELSE <<>>)

\* util_checks: the checks the governing maximum is taken over
UtilChecks(depth, oval_util, flotation_util, buckling_soil_util, buckling_air_util) ==
    <<oval_util, flotation_util, buckling_soil_util>>
        \o (IF AirApplies(depth) THEN <<buckling_air_util>> ELSE <<>>)

\* the locals of the depth-loop body of calculate_all_checks, each from the
\* ones before it
DL_flotation_util(v, dia, depth, sl) ==
    DDiv(calculate_flotation(v, DI(dia), depth, sl.pipe_weight, None), DI(100))

DL_P_cr_a(sl) == DMul(DMul(DI(24), sl.stiff_buck_short), DI(1000))

DL_FOS_air(sl, soil_pressure, surcharge) ==
    DDiv(DL_P_cr_a(sl), DAdd(soil_pressure, surcharge))

DL_buckling_air_util(v, depth, sl, soil_pressure, surcharge) ==
    IF AirApplies(depth)
    THEN DDiv(Const(v).BUCKLING_FOS_MIN_AIR,
              DL_FOS_air(sl, soil_pressure, surcharge))
    ELSE ZERO

DL_P_cr_short_kN(dl, sl) ==
    DMul(P_cr(dl.E_eff, sl.stiff_buck_short), DI(1000))
DL_P_cr_long_kN(dl, sl) ==
    DMul(P_cr(dl.E_eff, sl.stiff_buck_long), DI(1000))

DL_FOS_soil(dl, sl, soil_pressure, surcharge) ==
    DDiv(DI(1), DAdd(DDiv(soil_pressure, DL_P_cr_long_kN(dl, sl)),
                     DDiv(surcharge, DL_P_cr_short_kN(dl, sl))))

\* the soil-confined ratio the other way up: FOS over the minimum
DL_buckling_soil_util_inverse(v, dl, sl, soil_pressure, surcharge) ==
    DDiv(DL_FOS_soil(dl, sl, soil_pressure, surcharge),
         Const(v).BUCKLING_FOS_MIN)

DL_buckling_soil_util(v, dl, sl, soil_pressure, surcharge) ==
    DDiv(Const(v).BUCKLING_FOS_MIN,
         DL_FOS_soil(dl, sl, soil_pressure, surcharge))

DL_Record(soil_pressure, total_pressure, oval_percent, oval_util, flotation_util, buckling_air_util, buckling_soil_util, util_checks) ==
    [soil_pressure |-> soil_pressure, total_pressure |-> total_pressure,
     oval_percent |-> oval_percent, oval_util |-> oval_util,
     flotation_util |-> flotation_util,
     buckling_air_util |-> buckling_air_util,
     buckling_soil_util |-> buckling_soil_util,
     util_checks |-> util_checks, max_util |-> DMax(util_checks)]

DL_Utils(v, depth, soil_pressure, total_pressure, oval_percent, oval_util, flotation_util, buckling_air_util, buckling_soil_util) ==
    DL_Record(soil_pressure, total_pressure, oval_percent, oval_util,
              flotation_util, buckling_air_util, buckling_soil_util,
              UtilChecks(depth, oval_util, flotation_util,
                         buckling_soil_util, buckling_air_util))

DL_Checks(v, dia, depth, surcharge, dl, sl, soil_pressure, total_pressure, oval_percent) ==
    DL_Utils(v, depth, soil_pressure, total_pressure, oval_percent,
             DDiv(oval_percent, Const(v).oval_limit),
             DL_flotation_util(v, dia, depth, sl),
             DL_buckling_air_util(v, depth, sl, soil_pressure, surcharge),
             DL_buckling_soil_util(v, dl, sl, soil_pressure, surcharge))

DL_Pressures(v, dia, sdr_idx, depth, surcharge, dl, sl, soil_pressure, total_pressure) ==
    DL_Checks(v, dia, depth, surcharge, dl, sl, soil_pressure, total_pressure,
              ovalisation(v, total_pressure, sl.stiff_kN, dl.E_eff, sdr_idx))

DL_Soil(v, dia, sdr_idx, depth, surcharge, dl, sl, soil_pressure) ==
    DL_Pressures(v, dia, sdr_idx, depth, surcharge, dl, sl, soil_pressure,
                 DAdd(soil_pressure, surcharge))

\* the body of the depth loop of calculate_all_checks: its local variables
DepthLocals(v, dia, sdr_idx, depth, surcharge, dl, sl) ==
    DL_Soil(v, dia, sdr_idx, depth, surcharge, dl, sl,
            DMul(Const(v).soil_density, depth))

----------------------------------------------------------------------------
(* Pipe2Excel.py (and PipeUtilisation.py): functions                       *)

\* the locals unit_I and stiffness_val of stiffness
ST_unit_I(thickness) == DDiv(DPowInt(thickness, 4), DI(12))
ST_stiffness_val(outer_diameter, thickness) ==
    DDiv(DMul(P2E_Const.PIPE_MODULUS, ST_unit_I(thickness)),
         DPowInt(outer_diameter, 3))

\* stiffness(outer_diameter, thickness, perforated)
stiffness(outer_diameter, thickness, perforated) ==
    IF perforated
    THEN DMul(ST_stiffness_val(outer_diameter, thickness),
              P2E_Const.PERFORATION_REDUCTION)
    ELSE ST_stiffness_val(outer_diameter, thickness)

\* leonhardt(trench_width, outer_diameter, soil_mod, embed_mod)
leonhardt(trench_width, outer_diameter, soil_mod, embed_mod) ==
    IF DLt(DMul(D(43, -1), outer_diameter), trench_width) THEN DI(1)
    ELSE DDiv(LeonhardtNum(trench_width, outer_diameter),
              LeonhardtDenom(trench_width, outer_diameter, soil_mod, embed_mod))

\* Leonhardt(trench_width, diameter, soil_modulus, embed_modulus) of
\* PipeUtilisation.py
Leonhardt(trench_width, diameter, soil_modulus, embed_modulus) ==
    IF DLt(DMul(D(43, -1), diameter), trench_width) THEN DI(1)
    ELSE DDiv(DAdd(D(985, -3),
                   DDiv(DMul(D(544, -3), trench_width), diameter)),
              LeonhardtDenom(trench_width, diameter, soil_modulus,
                             embed_modulus))

\* the local buck_res of buckling
BK_buck_res(stiffness_val, effective_soil_mod) ==
    DMul(DMul(D(6, -1), DPow(DMul(stiffness_val, effective_soil_mod), 1, 3)),
         DPow(effective_soil_mod, 2, 3))

BK_Return(buck_res, pressures) ==
    [n \in 1..Len(pressures) |-> DDiv(buck_res, pressures[n])]

\* buckling(stiffness_val, effective_soil_mod, pressures)
buckling(stiffness_val, effective_soil_mod, pressures) ==
    BK_Return(BK_buck_res(stiffness_val, effective_soil_mod), pressures)

\* ovalisation(deflection_coeff, pressure, stiffness_val, eff_soil_mod,
\* sdr_index) of Pipe2Excel.py
P2E_ovalisation(deflection_coeff, pressure, stiffness_val, eff_soil_mod, sdr_index) ==
    DDiv(DAdd(P2E_Const.INITIAL_OVAL[sdr_index],
              DDiv(DMul(deflection_coeff, pressure),
                   DAdd(DMul(DI(8), stiffness_val),
                        DMul(D(61, -3), eff_soil_mod)))),
         DI(3))

\* the locals weight_water, soil_weight and down_force of flotation
FL_weight_water(outer_dia_m) ==
    DMul(DDiv(DMul(D(3141593, -6), DPowInt(outer_dia_m, 2)), DI(4)),
         P2E_Const.WATER_DENSITY)
FL_soil_weight(soil_depth, outer_dia_m) ==
    DMul(DMul(DSub(P2E_Const.SOIL_DENSITY, P2E_Const.WATER_DENSITY),
              soil_depth), outer_dia_m)
FL_down_force(soil_depth, sdr_index, outer_dia_m) ==
    DAdd(FL_soil_weight(soil_depth, outer_dia_m),
         P2E_Const.PIPE_WEIGHT[sdr_index])
FL_Return(soil_depth, sdr_index, outer_dia_m) ==
    DDiv(FL_down_force(soil_depth, sdr_index, outer_dia_m),
         FL_weight_water(outer_dia_m))

\* flotation(outer_diameter, soil_depth, sdr_index)
flotation(outer_diameter, soil_depth, sdr_index) ==
    FL_Return(soil_depth, sdr_index, DDiv(outer_diameter, DI(1000)))

\* 1 / x if x != 0 else 999
InvOr999(x) == IF IsErr(x) THEN x
               ELSE IF x # ZERO THEN DDiv(DI(1), x) ELSE DI(999)

\* the terms of the maximum of Pipe2Excel.py line 87
P2E_MaxTerms(oval, flot, crit) == <<oval, InvOr999(flot), InvOr999(crit)>>

\* the per-diameter part of utilisation
P2E_DiaLocals(dia) ==
    [trench_width |-> dia + 300,
     eff_soil_mod |->
         DMul(P2E_Const.EMBED_MODULUS,
              leonhardt(DI(dia + 300), DI(dia), P2E_Const.SOIL_MODULUS,
                        P2E_Const.EMBED_MODULUS))]

\* the locals of the class-loop body of utilisation: lists over the depths
UT_pressures(ground_depths, surcharges) ==
    [n \in 1..Min(Len(ground_depths), Len(surcharges)) |->
        DAdd(DDiv(DMul(P2E_Const.SOIL_DENSITY, ground_depths[n]), DI(1000)),
             surcharges[n])]

UT_oval_factors(idx, eff_soil_mod, stiff, pressures) ==
    [n \in 1..Len(pressures) |->
        P2E_ovalisation(P2E_Const.DEFLECTION_COEFF, pressures[n], stiff,
                        eff_soil_mod, idx)]

UT_flotation_safety(dia, idx, ground_depths) ==
    [n \in 1..Len(ground_depths) |-> flotation(DI(dia), ground_depths[n], idx)]

UT_pbuck_crit(dia, thickness) ==
    DMul(DDiv(DMul(DMul(DI(24), P2E_Const.PIPE_MODULUS), ST_unit_I(thickness)),
              DPowInt(DI(dia), 3)),
         DI(1000))

UT_buck_crit_safety(pbuck_crit, pressures) ==
    [n \in 1..Len(pressures) |->
        DDiv(DDiv(pbuck_crit, pressures[n]), D(15, -1))]

UT_utils(oval_factors, flotation_safety, buck_crit_safety) ==
    [n \in 1..Min(Len(oval_factors),
                  Min(Len(flotation_safety), Len(buck_crit_safety))) |->
        DMax(P2E_MaxTerms(oval_factors[n], flotation_safety[n],
                          buck_crit_safety[n]))]

UT_Record(dia, idx, stiff, pressures, buck_safety, oval_factors, flotation_safety, pbuck_crit, buck_crit_safety, utils) ==
    [key |-> <<dia, SdrType(idx)>>, stiff |-> stiff,
     pressures |-> pressures, buck_safety |-> buck_safety,
     oval_factors |-> oval_factors, flotation_safety |-> flotation_safety,
     buck_crit_safety |-> buck_crit_safety, utils |-> utils,
     raised |-> ListErr(<<stiff>> \o pressures \o buck_safety
                            \o oval_factors \o flotation_safety
                            \o <<pbuck_crit>> \o buck_crit_safety \o utils)]

UT_Lists(dia, idx, stiff, pressures, buck_safety, oval_factors, flotation_safety, pbuck_crit, buck_crit_safety) ==
    UT_Record(dia, idx, stiff, pressures, buck_safety, oval_factors,
              flotation_safety, pbuck_crit, buck_crit_safety,
              UT_utils(oval_factors, flotation_safety, buck_crit_safety))

UT_Stiff(dia, idx, ground_depths, eff_soil_mod, stiff, pressures, pbuck_crit) ==
    UT_Lists(dia, idx, stiff, pressures,
             buckling(stiff, eff_soil_mod, pressures),
             UT_oval_factors(idx, eff_soil_mod, stiff, pressures),
             UT_flotation_safety(dia, idx, ground_depths),
             pbuck_crit, UT_buck_crit_safety(pbuck_crit, pressures))

\* the body of the class loop of utilisation
P2E_PairLocals(dia, thickness, idx, ground_depths, surcharges, perforated, eff_soil_mod) ==
    UT_Stiff(dia, idx, ground_depths, eff_soil_mod,
             stiffness(DI(dia), thickness, perforated),
             UT_pressures(ground_depths, surcharges),
             UT_pbuck_crit(dia, thickness))

----------------------------------------------------------------------------
(* The property dictionary                                                 *)

\* a Python dict built by inserting (ks[n], vs[n]) for n = 1..Len(ks): the
\* keys keep the order of their first insertion, a repeated key keeps its
\* place and takes the later value
RECURSIVE FirstKeys(_, _)
FirstKeys(ks, n) ==
    IF n = 0 THEN <<>>
    ELSE IF \E q \in 1..(n - 1) : ks[q] = ks[n] THEN FirstKeys(ks, n - 1)
         ELSE Append(FirstKeys(ks, n - 1), ks[n])

LastIndex(ks, key) ==
    CHOOSE n \in 1..Len(ks) :
        ks[n] = key /\ \A q \in (n + 1)..Len(ks) : ks[q] # key

DictOf(ks, vs) ==
    [keys |-> FirstKeys(ks, Len(ks)),
     val |-> [key \in {ks[n] : n \in 1..Len(ks)} |-> vs[LastIndex(ks, key)]],
     raised |-> ""]

IndexError == [keys |-> <<>>, val |-> <<>>, raised |-> "IndexError"]

\* a dictionary whose entries hold the SDR17 thickness first
make_pipe_dict_sdr17_first(diams, s11, s17) ==
    IF Len(s11) < Len(diams) \/ Len(s17) < Len(diams) THEN IndexError
    ELSE DictOf(diams, [n \in 1..Len(diams) |-> <<s17[n], s11[n]>>])

\* make_pipe_dict(diams, s11, s17): s11[i], s17[i] for every position of diams
make_pipe_dict(diams, s11, s17) ==
    IF Len(s11) < Len(diams) \/ Len(s17) < Len(diams) THEN IndexError
    ELSE DictOf(diams, [n \in 1..Len(diams) |-> <<s11[n], s17[n]>>])

\* dictionary(diameters, sdr11, sdr17) of Pipe2Excel.py: zip() stops at the
\* shortest of the three
dictionary(diams, s11, s17) ==
    DictOf(SubSeq(diams, 1, Min(Len(diams), Min(Len(s11), Len(s17)))),
           [n \in 1..Min(Len(diams), Min(Len(s11), Len(s17))) |->
               <<s11[n], s17[n]>>])

----------------------------------------------------------------------------
(* The scripts as a state machine                                          *)

VARIABLES
    variant,     \* the script: "FCT", "ST", "P2E", "PU" or "UE"
    in_diams,    \* the diameter list handed to the dictionary builder
    in_s11,      \* the SDR11 thickness list
    in_s17,      \* the SDR17 thickness list
    depths,      \* the depth sequence handed to the engine
    surcharges,  \* the surcharge sequence handed to the engine
    pipe_dict,   \* the property dictionary, once built
    pc,          \* "start", "dia", "sdr", "depth", "done", "raised"
    exc,         \* the exception that ended the run, "" if none
    i,           \* position of the current diameter in the dictionary
    j,           \* sdr_idx of the current class (0, 1)
    k,           \* position of the current depth
    dloc,        \* the locals set per diameter
    sloc,        \* the locals set per class
    loc,         \* the locals of the last depth-loop body
    results,     \* the rows (FCT, ST) or the entries per key (P2E) so far
    call,        \* a single function call: the function and its arguments
    ret          \* its return value

Unset == <<>>

vars == <<variant, in_diams, in_s11, in_s17, depths, surcharges, pipe_dict,
          pc, exc, i, j, k, dloc, sloc, loc, results, call, ret, params>>

inputs == <<variant, in_diams, in_s11, in_s17, depths, surcharges, params>>

\* the sidebar at its default values; the other scripts have no such
\* dictionary
Sidebar(v) == IF v = "ST" THEN ST_Const ELSE Unset


ExcName(x) == IF x = ZeroDivisionError THEN "ZeroDivisionError"
              ELSE "TypeError"

\* the pipes the runs are given: a thin-walled 110, the shipped 110 and 630
\* (positions 1 and 15 of the tables), and two invalid entries
PipeChoices ==
    <<[d |-> 110, t11 |-> DI(1), t17 |-> D(5, -1)],
      [d |-> diameters[1], t11 |-> sdr11[1], t17 |-> sdr17[1]],
      [d |-> diameters[15], t11 |-> sdr11[15], t17 |-> sdr17[15]],
      [d |-> diameters[2], t11 |-> DNeg(sdr11[2]), t17 |-> sdr17[2]],
      [d |-> 0, t11 |-> sdr11[1], t17 |-> sdr17[1]]>>

\* the scenarios the runs are given: positions 1, 8 and 9 of the shipped
\* depth table, the 1.5 m boundary, and an unloaded pipe at the surface
DepthChoices == <<crown_depths[1], crown_depths[8], D(15, -1),
                  crown_depths[9], ZERO>>
SurchargeChoices == <<surcharge_pressure[1], surcharge_pressure[8], DI(80),
                      surcharge_pressure[9], ZERO>>

MaxPipes == 2
MaxDepths == 2

Window(s, a, n) == SubSeq(s, a, a + n - 1)

InitRun ==
    /\ variant \in {"FCT", "ST", "P2E"}
    /\ params = Sidebar(variant)
    /\ \E a \in 1..Len(PipeChoices), n \in 1..MaxPipes :
          /\ a + n - 1 <= Len(PipeChoices)
          /\ in_diams = [q \in 1..n |-> PipeChoices[a + q - 1].d]
          /\ in_s11 = [q \in 1..n |-> PipeChoices[a + q - 1].t11]
          /\ in_s17 = [q \in 1..n |-> PipeChoices[a + q - 1].t17]
    /\ \E b \in 1..Len(DepthChoices), n \in 1..MaxDepths, delta \in {-1, 0, 1} :
          /\ b + n - 1 <= Len(DepthChoices)
          /\ b + n - 1 + delta <= Len(SurchargeChoices)
          /\ depths = Window(DepthChoices, b, n)
          /\ surcharges = Window(SurchargeChoices, b, n + delta)
    /\ pipe_dict = Unset
    /\ pc = "start"
    /\ exc = ""
    /\ i = 0 /\ j = 0 /\ k = 0
    /\ dloc = Unset /\ sloc = Unset /\ loc = Unset
    /\ results = <<>>
    /\ call = Unset /\ ret = Unset

Raise(name) ==
    /\ pc' = "raised"
    /\ exc' = name

\* the dictionary builder of the running script
Built ==
    IF variant = "P2E" THEN dictionary(in_diams, in_s11, in_s17)
    ELSE make_pipe_dict(in_diams, in_s11, in_s17)

StoreDict(built) ==
    IF built.raised # ""
    THEN Raise(built.raised) /\ UNCHANGED <<pipe_dict, i>>
    ELSE pipe_dict' = built /\ pc' = "dia" /\ i' = 1 /\ exc' = exc

\* pipe_data = make_pipe_dict(diameters, sdr11, sdr17), or
\* iterdict = dictionary(diameters, sdr11, sdr17)
BuildDict ==
    /\ pc = "start"
    /\ StoreDict(Built)
    /\ UNCHANGED <<inputs, j, k, dloc, sloc, loc, results, call, ret>>

\* the loop variables dia and thickness
CurDia == pipe_dict.keys[i]
CurThickness == pipe_dict.val[CurDia][j + 1]

\* the effective modulus among the per-diameter locals
EffOf(d) == IF variant = "P2E" THEN d.eff_soil_mod ELSE d.E_eff

EnterDiameter(d) ==
    IF IsErr(EffOf(d))
    THEN Raise(ExcName(EffOf(d))) /\ UNCHANGED <<dloc, j>>
    ELSE dloc' = d /\ j' = 0 /\ pc' = "sdr" /\ exc' = exc

\* for dia, ... in pipe_dict.items(): the statements before the class loop;
\* past the last diameter the function returns
NextDiameter ==
    /\ pc = "dia"
    /\ IF i > Len(pipe_dict.keys)
       THEN pc' = "done" /\ UNCHANGED <<exc, dloc, j>>
       ELSE IF variant = "P2E" THEN EnterDiameter(P2E_DiaLocals(CurDia))
       ELSE EnterDiameter(DiaLocals(variant, CurDia))
    /\ UNCHANGED <<inputs, pipe_dict, i, k, sloc, loc, results, call, ret>>

\* the row calculate_all_checks appends (its dict; a numpy nan where the
\* in-air check does not apply)
Row(v, dia, sdr_type, thickness, depth, L) ==
    IF v = "ST"
    THEN [Diameter |-> dia, SDRType |-> sdr_type, CrownDepth |-> depth,
          Ovalisation |-> PassFail(L.oval_util, L.oval_percent),
          Flotation |->
              PassFail(L.flotation_util, DMul(L.flotation_util, DI(100))),
          BucklingSoil |->
              PassFail(L.buckling_soil_util,
                       DMul(L.buckling_soil_util, DI(100))),
          BucklingAir |->
              IF AirApplies(depth)
              THEN PassFail(L.buckling_air_util,
                            DMul(L.buckling_air_util, DI(100)))
              ELSE Display("N/A", ZERO),
          OverallStatus |-> overall_status(v, L.max_util),
          TampingSafe |-> IF DGe(depth, Const(v).tamping_depth) THEN "YES"
                          ELSE "NO"]
    ELSE [Diameter |-> dia, SDRType |-> sdr_type, Thickness |-> thickness,
          CrownDepth |-> depth, Ovalisation |-> L.oval_percent,
          OvalisationUtil |-> DMul(L.oval_util, DI(100)),
          FlotationUtil |-> DMul(L.flotation_util, DI(100)),
          BucklingAirUtil |->
              IF AirApplies(depth) THEN DMul(L.buckling_air_util, DI(100))
              ELSE NaN,
          BucklingSoilUtil |-> DMul(L.buckling_soil_util, DI(100)),
          TampingSafe |-> IF DGe(depth, Const(v).tamping_depth) THEN "YES"
                          ELSE "NO",
          OverallUtil |-> overall_status(v, L.max_util)]

\* results[key] = [...] of Pipe2Excel.py, L the locals of the class-loop body
StorePair(L) ==
    IF IsErr(L.raised)
    THEN /\ Raise(ExcName(L.raised))
         /\ UNCHANGED <<i, j, k, sloc, loc, results>>
    ELSE /\ results' = Append(results, [key |-> L.key, utils |-> L.utils])
         /\ loc' = L
         /\ j' = j + 1
         /\ UNCHANGED <<pc, exc, i, k, sloc>>

\* an exception raised by the statements before the depth loop
SdrRaised(sl) ==
    ListErr(<<sl.stiff_val, sl.stiff_buck_short, sl.stiff_buck_long>>)

EnterClass(sl) ==
    IF IsErr(SdrRaised(sl))
    THEN /\ Raise(ExcName(SdrRaised(sl)))
         /\ UNCHANGED <<i, j, k, sloc, loc, results>>
    ELSE /\ sloc' = sl
         /\ k' = 1
         /\ pc' = "depth"
         /\ UNCHANGED <<exc, i, j, loc, results>>

\* for sdr_idx, thickness in enumerate(...): the statements before the depth
\* loop (FCT, ST), or the whole body with its list comprehensions (P2E);
\* past the second class the diameter loop goes on
NextClass ==
    /\ pc = "sdr"
    /\ IF j > 1
       THEN /\ i' = i + 1
            /\ pc' = "dia"
            /\ UNCHANGED <<exc, j, k, sloc, loc, results>>
       ELSE IF variant = "P2E"
       THEN StorePair(P2E_PairLocals(CurDia, CurThickness, j, depths,
                                     surcharges, FALSE, dloc.eff_soil_mod))
       ELSE EnterClass(SdrLocals(variant, CurDia, CurThickness, j))
    /\ UNCHANGED <<inputs, pipe_dict, dloc, call, ret>>

\* an exception raised by the body of the depth loop
DepthRaised(L) ==
    ListErr(<<L.oval_util, L.flotation_util, L.buckling_air_util,
              L.buckling_soil_util, L.max_util>>)

\* results.append({...}), L the locals of the depth-loop body
AppendRow(L) ==
    IF IsErr(DepthRaised(L))
    THEN /\ Raise(ExcName(DepthRaised(L)))
         /\ UNCHANGED <<j, k, loc, results>>
    ELSE /\ results' = Append(results,
                              Row(variant, CurDia, sloc.sdr_type,
                                  CurThickness, depths[k], L))
         /\ loc' = L
         /\ k' = k + 1
         /\ UNCHANGED <<pc, exc, j>>

\* a depth loop that clears each surcharge entry once it has used it
NextDepth_clearing ==
    /\ pc = "depth"
    /\ IF k > Len(depths)
       THEN /\ j' = j + 1
            /\ pc' = "sdr"
            /\ UNCHANGED <<exc, k, loc, results, surcharges>>
       ELSE IF k > Len(surcharges)
       THEN /\ Raise("IndexError")
            /\ UNCHANGED <<j, k, loc, results, surcharges>>
       ELSE /\ AppendRow(DepthLocals(variant, CurDia, j, depths[k],
                                     surcharges[k], dloc, sloc))
            /\ surcharges' = [surcharges EXCEPT ![k] = ZERO]
    /\ UNCHANGED <<variant, in_diams, in_s11, in_s17, depths, params,
                   pipe_dict, i, dloc, sloc, call, ret>>

\* for depth_idx, depth in enumerate(depths): one row; past the last depth
\* the class loop goes on
NextDepth ==
    /\ pc = "depth"
    /\ IF k > Len(depths)
       THEN /\ j' = j + 1
            /\ pc' = "sdr"
            /\ UNCHANGED <<exc, k, loc, results>>
       ELSE IF k > Len(surcharges)
       THEN /\ Raise("IndexError")
            /\ UNCHANGED <<j, k, loc, results>>
       ELSE AppendRow(DepthLocals(variant, CurDia, j, depths[k],
                                  surcharges[k], dloc, sloc))
    /\ UNCHANGED <<inputs, pipe_dict, i, dloc, sloc, call, ret>>

Init == InitRun

Next ==
    \/ BuildDict
    \/ NextDiameter
    \/ NextClass
    \/ NextDepth

Spec == Init /\ [][Next]_vars

\* the run the scripts make on start: the shipped tables, and one of the
\* shipped depths with its surcharge
InitShipped ==
    /\ variant \in {"FCT", "ST"}
    /\ params = Sidebar(variant)
    /\ in_diams = diameters /\ in_s11 = sdr11 /\ in_s17 = sdr17
    /\ \E b \in 1..Len(crown_depths) :
          /\ depths = Window(crown_depths, b, 1)
          /\ surcharges = Window(surcharge_pressure, b, 1)
    /\ pipe_dict = Unset
    /\ pc = "start"
    /\ exc = ""
    /\ i = 0 /\ j = 0 /\ k = 0
    /\ dloc = Unset /\ sloc = Unset /\ loc = Unset
    /\ results = <<>>
    /\ call = Unset /\ ret = Unset

SpecShipped == InitShipped /\ [][Next]_vars

\* native-soil and embedment moduli (MN/m2) the sidebar can be set to
ModulusChoices == {D(1, -1), D(25, -1), DI(10), DI(500)}

\* the sidebar with the two moduli as entered
SidebarWith(E_soil, E_embed) ==
    [ST_Const EXCEPT !.soil_modulus = E_soil, !.embed_modulus = E_embed]

\* a run over the shipped tables at the first shipped depth;
\* StreamlitBS9295.py with the moduli entered in the sidebar
InitModuli ==
    /\ variant \in {"FCT", "ST"}
    /\ IF variant = "ST"
       THEN \E E_soil \in ModulusChoices, E_embed \in ModulusChoices :
                params = SidebarWith(E_soil, E_embed)
       ELSE params = Sidebar(variant)
    /\ in_diams = diameters /\ in_s11 = sdr11 /\ in_s17 = sdr17
    /\ depths = Window(crown_depths, 1, 1)
    /\ surcharges = Window(surcharge_pressure, 1, 1)
    /\ pipe_dict = Unset
    /\ pc = "start"
    /\ exc = ""
    /\ i = 0 /\ j = 0 /\ k = 0
    /\ dloc = Unset /\ sloc = Unset /\ loc = Unset
    /\ results = <<>>
    /\ call = Unset /\ ret = Unset

SpecModuli == InitModuli /\ [][Next]_vars

----------------------------------------------------------------------------
(* UtilisationExcel.py: calculate_ovalization                              *)

\* the per-class part of calculate_ovalization
UE_SdrRecord(sdr_idx, stiff_val) ==
    [sdr_type |-> SdrType(sdr_idx), stiff_val |-> stiff_val,
     stiff_kN |-> DMul(stiff_val, DI(1000))]

UE_SdrLocals(dia, thickness, sdr_idx) ==
    UE_SdrRecord(sdr_idx, pipe_stiffness("UE", DI(dia), thickness, UE_Const.long_modulus, TRUE))

\* the body of the depth loop of calculate_ovalization: its local variables
UE_DL_Record(soil_pressure, total_pressure, oval_percent) ==
    [soil_pressure |-> soil_pressure, total_pressure |-> total_pressure,
     oval_percent |-> oval_percent,
     util_percent |-> DMul(DDiv(oval_percent, UE_Const.oval_limit), DI(100))]

UE_DL_Total(sdr_idx, dl, sl, soil_pressure, total_pressure) ==
    UE_DL_Record(soil_pressure, total_pressure,
                 ovalisation("UE", total_pressure, sl.stiff_kN, dl.E_eff,
                             sdr_idx))

UE_DL_Soil(sdr_idx, surcharge, dl, sl, soil_pressure) ==
    UE_DL_Total(sdr_idx, dl, sl, soil_pressure, DAdd(soil_pressure, surcharge))

UE_DepthLocals(sdr_idx, depth, surcharge, dl, sl) ==
    UE_DL_Soil(sdr_idx, surcharge, dl, sl, DMul(UE_Const.soil_density, depth))

\* the row calculate_ovalization appends
UE_Row(dia, sdr_type, thickness, depth, L) ==
    [Diameter |-> dia, SDRType |-> sdr_type, Thickness |-> thickness,
     CrownDepth |-> depth, Ovalization |-> L.oval_percent,
     Utilization |-> L.util_percent]

InitUE ==
    /\ variant = "UE"
    /\ params = Sidebar(variant)
    /\ \E a \in 1..Len(PipeChoices), n \in 1..MaxPipes :
          /\ a + n - 1 <= Len(PipeChoices)
          /\ in_diams = [q \in 1..n |-> PipeChoices[a + q - 1].d]
          /\ in_s11 = [q \in 1..n |-> PipeChoices[a + q - 1].t11]
          /\ in_s17 = [q \in 1..n |-> PipeChoices[a + q - 1].t17]
    /\ \E b \in 1..Len(DepthChoices), n \in 1..MaxDepths, delta \in {-1, 0, 1} :
          /\ b + n - 1 <= Len(DepthChoices)
          /\ b + n - 1 + delta <= Len(SurchargeChoices)
          /\ depths = Window(DepthChoices, b, n)
          /\ surcharges = Window(SurchargeChoices, b, n + delta)
    /\ pipe_dict = Unset
    /\ pc = "start"
    /\ exc = ""
    /\ i = 0 /\ j = 0 /\ k = 0
    /\ dloc = Unset /\ sloc = Unset /\ loc = Unset
    /\ results = <<>>
    /\ call = Unset /\ ret = Unset

UE_EnterClass(sl) ==
    IF IsErr(sl.stiff_val)
    THEN /\ Raise(ExcName(sl.stiff_val))
         /\ UNCHANGED <<i, j, k, sloc, loc, results>>
    ELSE /\ sloc' = sl
         /\ k' = 1
         /\ pc' = "depth"
         /\ UNCHANGED <<exc, i, j, loc, results>>

\* for sdr_idx, thickness in enumerate(...): the statements before the depth
\* loop; past the second class the diameter loop goes on
UE_NextClass ==
    /\ pc = "sdr"
    /\ IF j > 1
       THEN /\ i' = i + 1
            /\ pc' = "dia"
            /\ UNCHANGED <<exc, j, k, sloc, loc, results>>
       ELSE UE_EnterClass(UE_SdrLocals(CurDia, CurThickness, j))
    /\ UNCHANGED <<inputs, pipe_dict, dloc, call, ret>>

UE_AppendRow(L) ==
    IF IsErr(L.util_percent)
    THEN /\ Raise(ExcName(L.util_percent))
         /\ UNCHANGED <<j, k, loc, results>>
    ELSE /\ results' = Append(results,
                              UE_Row(CurDia, sloc.sdr_type, CurThickness,
                                     depths[k], L))
         /\ loc' = L
         /\ k' = k + 1
         /\ UNCHANGED <<pc, exc, j>>

\* for depth_idx, depth in enumerate(depths): one row
UE_NextDepth ==
    /\ pc = "depth"
    /\ IF k > Len(depths)
       THEN /\ j' = j + 1
            /\ pc' = "sdr"
            /\ UNCHANGED <<exc, k, loc, results>>
       ELSE IF k > Len(surcharges)
       THEN /\ Raise("IndexError")
            /\ UNCHANGED <<j, k, loc, results>>
       ELSE UE_AppendRow(UE_DepthLocals(j, depths[k], surcharges[k], dloc,
                                        sloc))
    /\ UNCHANGED <<inputs, pipe_dict, i, dloc, sloc, call, ret>>

NextUE ==
    \/ BuildDict
    \/ NextDiameter
    \/ UE_NextClass
    \/ UE_NextDepth

SpecUE == InitUE /\ [][NextUE]_vars

----------------------------------------------------------------------------
(* Single calls of the pure functions                                      *)

\* the engine's variables while a single function is called
NoRun ==
    /\ depths = <<>> /\ surcharges = <<>>
    /\ pipe_dict = Unset
    /\ pc = "call"
    /\ exc = ""
    /\ i = 0 /\ j = 0 /\ k = 0
    /\ dloc = Unset /\ sloc = Unset /\ loc = Unset
    /\ results = <<>>

NoTables ==
    /\ in_diams = <<>> /\ in_s11 = <<>> /\ in_s17 = <<>>
    /\ params = Sidebar(variant)

Return(value) ==
    /\ pc = "call"
    /\ pc' = "returned"
    /\ ret' = value
    /\ UNCHANGED <<inputs, pipe_dict, exc, i, j, k, dloc, sloc, loc, results,
                   call>>

\* trench widths, pipe diameters and moduli the Leonhardt functions are
\* called with
TrenchChoices == {1, 100, 410, 500, 930}
PipeDiaChoices == {2, 100, 110, 630}
SoilModChoices == {0, 3, 10, 500}
EmbedModChoices == {10, 1757}

InitLeonhardt ==
    /\ variant \in {"FCT", "ST", "P2E", "PU"}
    /\ \E B \in TrenchChoices, Dp \in PipeDiaChoices, Es \in SoilModChoices,
          Ee \in EmbedModChoices :
          call = [fn |-> "leonhardt",
                  args |-> <<DI(B), DI(Dp), DI(Es), DI(Ee)>>]
    /\ ret = Unset
    /\ NoTables
    /\ NoRun

\* the soil-interaction factor function of the script
SoilInteractionFactor(v, a) ==
    IF v = "P2E" THEN leonhardt(a[1], a[2], a[3], a[4])
    ELSE IF v = "PU" THEN Leonhardt(a[1], a[2], a[3], a[4])
    ELSE leonhardt_factor(a[1], a[2], a[3], a[4])

CallLeonhardt ==
    /\ call.fn = "leonhardt"
    /\ Return(SoilInteractionFactor(variant, call.args))

SpecLeonhardt == InitLeonhardt /\ [][CallLeonhardt]_vars

\* governing utilisations overall_status is called with: 1.0 and the
\* thousandths around it
UtilSpread == 60

InitStatus ==
    /\ variant \in {"FCT", "ST"}
    /\ \E d \in (0 - UtilSpread)..UtilSpread :
          call = [fn |-> "overall_status", args |-> <<D(1000 + d, -3)>>]
    /\ ret = Unset
    /\ NoTables
    /\ NoRun

CallStatus ==
    /\ call.fn = "overall_status"
    /\ Return(overall_status(variant, call.args[1]))

SpecStatus == InitStatus /\ [][CallStatus]_vars

\* the tables the dictionary builders are called with: up to MaxKeys
\* diameters out of the first three of the shipped table, repeated or not,
\* with thicknesses of the first two shipped sizes
MaxKeys == 3
KeyChoices == {diameters[1], diameters[2], diameters[3]}
Sdr11Choices == {sdr11[1], sdr11[2]}
Sdr17Choices == {sdr17[1], sdr17[2]}

InitDict ==
    /\ variant \in {"FCT", "ST", "P2E"}
    /\ params = Sidebar(variant)
    /\ \E n \in 1..MaxKeys :
          /\ in_diams \in [1..n -> KeyChoices]
          /\ in_s11 \in [1..n -> Sdr11Choices]
          /\ in_s17 \in [1..n -> Sdr17Choices]
    /\ call = [fn |-> "make_pipe_dict", args |-> <<>>]
    /\ ret = Unset
    /\ NoRun

CallDict ==
    /\ call.fn = "make_pipe_dict"
    /\ Return(Built)

SpecDict == InitDict /\ [][CallDict]_vars

----------------------------------------------------------------------------
(* Calls of pipe_stiffness in one process                                  *)

\* the number of calls made in a process
MaxCalls == 2

\* the arguments pipe_stiffness is called with
StiffDiaChoices == {diameters[1]}
StiffThickChoices == {sdr11[1], sdr17[1]}
StiffModulusChoices == {FCT_Const.long_modulus, FCT_Const.short_modulus}

\* values the sidebar's "Perforation Reduction Factor" input can be set to
\* (min_value 0.01, max_value 1.0)
PerforationChoices == {D(5, -1), D(95, -2), DI(1)}

\* ret holds the calls made so far, each with its arguments and its value
InitStiffness ==
    /\ variant \in {"FCT", "ST"}
    /\ call = Unset
    /\ ret = <<>>
    /\ NoTables
    /\ NoRun

\* the user edits the sidebar: the script is run again in the same process
\* and params is filled with the new value
SidebarInput ==
    /\ variant = "ST"
    /\ pc = "call"
    /\ \E x \in PerforationChoices :
          params' = [params EXCEPT !.perforation_red = x]
    /\ UNCHANGED <<variant, in_diams, in_s11, in_s17, depths, surcharges,
                   pipe_dict, pc, exc, i, j, k, dloc, sloc, loc, results,
                   call, ret>>

Logged(OD, t, modulus, perforated, value) ==
    [args |-> <<OD, t, modulus, perforated>>, value |-> value]

\* one call of pipe_stiffness(OD, t, modulus, perforated)
CallStiffness ==
    /\ pc = "call"
    /\ Len(ret) < MaxCalls
    /\ \E OD \in StiffDiaChoices, t \in StiffThickChoices, modulus \in StiffModulusChoices, perforated \in BOOLEAN :
          ret' = Append(ret, Logged(OD, t, modulus, perforated, pipe_stiffness(variant, DI(OD), t, modulus, perforated)))
    /\ UNCHANGED <<inputs, pipe_dict, pc, exc, i, j, k, dloc, sloc, loc,
                   results, call>>

NextStiffness ==
    \/ SidebarInput
    \/ CallStiffness

SpecStiffness == InitStiffness /\ [][NextStiffness]_vars

----------------------------------------------------------------------------
(* Calls of calculate_flotation, next to the runs of the engine            *)

\* the arguments calculate_flotation is called with; an invert level is
\* None, 0 or a level in metres
FlotDiaChoices == {diameters[1], diameters[15]}
FlotDepthChoices == {crown_depths[1], crown_depths[9]}
FlotWeightChoices == {D(25, -2), D(16, -2)}
InvertChoices == {None, ZERO, D(5, -1), DI(2)}

InitFlotation ==
    /\ variant \in {"FCT", "ST"}
    /\ \E dia \in FlotDiaChoices, depth \in FlotDepthChoices, pipe_weight \in FlotWeightChoices, invert_level \in InvertChoices :
          call = [fn |-> "calculate_flotation",
                  args |-> <<dia, depth, pipe_weight, invert_level>>]
    /\ ret = Unset
    /\ NoTables
    /\ NoRun

CallFlotation ==
    /\ pc = "call"
    /\ call.fn = "calculate_flotation"
    /\ Return(calculate_flotation(variant, DI(call.args[1]), call.args[2],
                                  call.args[3], call.args[4]))

InitFlotationOrRun == InitFlotation \/ InitRun

NextFlotationOrRun ==
    \/ CallFlotation
    \/ Next

SpecFlotation == InitFlotationOrRun /\ [][NextFlotationOrRun]_vars

----------------------------------------------------------------------------
(* The depth-loop body under two surcharges                                *)

\* the pipes, depths and surcharges (kN/m2) the body is evaluated for
LoadPipeChoices == {1, 2, 3}
LoadDepthChoices == {D(675, -3), D(1375, -3), D(15, -1), D(1575, -3)}
LoadSurchargeChoices == {0, 15, 75, 95, 690, 5000}

LoadThickness(p, sdr_idx) ==
    IF sdr_idx = 0 THEN PipeChoices[p].t11 ELSE PipeChoices[p].t17

InitLoad ==
    /\ variant \in {"FCT", "ST"}
    /\ \E p \in LoadPipeChoices, sdr_idx \in {0, 1}, depth \in LoadDepthChoices, lo \in LoadSurchargeChoices, hi \in LoadSurchargeChoices :
          /\ lo <= hi
          /\ call = [fn |-> "depth_body",
                     args |-> <<PipeChoices[p].d, LoadThickness(p, sdr_idx),
                                sdr_idx, depth, DI(lo), DI(hi)>>]
    /\ ret = Unset
    /\ NoTables
    /\ NoRun

\* the locals of the depth-loop body of calculate_all_checks for the two
\* surcharges, the diameter, class and depth being the same
LoadPair(v, dia, sdr_idx, depth, lo, hi, dl, sl) ==
    <<DepthLocals(v, dia, sdr_idx, depth, lo, dl, sl),
      DepthLocals(v, dia, sdr_idx, depth, hi, dl, sl)>>

CallLoad ==
    /\ pc = "call"
    /\ call.fn = "depth_body"
    /\ Return(LoadPair(variant, call.args[1], call.args[3], call.args[4],
                       call.args[5], call.args[6],
                       DiaLocals(variant, call.args[1]),
                       SdrLocals(variant, call.args[1], call.args[2],
                                 call.args[3])))

SpecLoad == InitLoad /\ [][CallLoad]_vars


----------------------------------------------------------------------------
(* Properties of the grid engine                                           *)

IsGrid == variant \in {"FCT", "ST"}

\* the row appended last; loc holds the locals it was built from
LastRow == results[Len(results)]

\* the checks that apply at a depth, given the four utilisations
Applicable(depth, oval, flot, soil, air) ==
    <<oval, flot, soil>> \o (IF DLt(depth, D(15, -1)) THEN <<air>> ELSE <<>>)

\* the n-th scenario of a Pipe2Excel.py entry: its four utilisations
P2E_Applicable(L, n) ==
    Applicable(depths[n], L.oval_factors[n], InvOr999(L.flotation_safety[n]),
               InvOr999(L.buck_safety[n]), InvOr999(L.buck_crit_safety[n]))

\* C1: in every row the engine produces, the governing utilisation is the
\* maximum of the utilisations that apply to the row: ovalisation, flotation
\* and buckling with soil, and buckling in air when depth < 1.5 m; no
\* applicable check is left out in any script
C1_GoverningIsMaxOfApplicable ==
    results # <<>> =>
        IF variant = "P2E"
        THEN \A n \in 1..Len(loc.utils) :
                 loc.utils[n] = DMax(P2E_Applicable(loc, n))
        ELSE loc.max_util =
                 DMax(Applicable(LastRow.CrownDepth, loc.oval_util,
                                 loc.flotation_util, loc.buckling_soil_util,
                                 loc.buckling_air_util))

\* C2: the in-air buckling check enters the governing utilisation if and only
\* if depth < 1.5 m: from 1.5 m on the governing value is the maximum of the
\* other checks of the script, whatever the in-air term would be
C2_AirOnlyBelowThreshold ==
    results # <<>> =>
        IF variant = "P2E"
        THEN \A n \in 1..Len(loc.utils) :
                 loc.utils[n] =
                     DMax(<<loc.oval_factors[n],
                            InvOr999(loc.flotation_safety[n])>>
                          \o (IF DLt(depths[n], D(15, -1))
                              THEN <<InvOr999(loc.buck_crit_safety[n])>>
                              ELSE <<>>))
        ELSE /\ DGe(LastRow.CrownDepth, D(15, -1)) =>
                    loc.max_util = DMax(<<loc.oval_util, loc.flotation_util,
                                          loc.buckling_soil_util>>)
             /\ DLt(LastRow.CrownDepth, D(15, -1)) =>
                    loc.max_util = DMax(<<loc.oval_util, loc.flotation_util,
                                          loc.buckling_soil_util,
                                          loc.buckling_air_util>>)

\* C3: the overall value of every row is the uncapped maximum utilisation
\* (as a percentage), also when it exceeds 100 %
C3_RowCarriesUncappedMaximum ==
    (IsGrid /\ results # <<>>) =>
        IF variant = "ST"
        THEN LastRow.OverallStatus.pct = Round1(DMul(loc.max_util, DI(100)))
        ELSE LastRow.OverallUtil = DMul(loc.max_util, DI(100))

\* the input tables are valid: distinct non-zero diameters, positive
\* thicknesses, parallel sequences
ValidInput ==
    /\ Len(in_s11) = Len(in_diams) /\ Len(in_s17) = Len(in_diams)
    /\ Len(depths) = Len(surcharges)
    /\ \A a \in 1..Len(in_diams) :
          /\ in_diams[a] > 0
          /\ in_s11[a].m > 0 /\ in_s17[a].m > 0
          /\ \A b \in 1..Len(in_diams) : in_diams[a] = in_diams[b] => a = b

\* the n-th of D * 2 * N rows in the nested order diameter, class, depth
TripleAt(n) ==
    [Diameter |-> in_diams[(n - 1) \div (2 * Len(depths)) + 1],
     SDRType |-> SdrType(((n - 1) \div Len(depths)) % 2),
     CrownDepth |-> depths[((n - 1) % Len(depths)) + 1]]

RowsInNestedOrder ==
    /\ Len(results) = Len(in_diams) * 2 * Len(depths)
    /\ \A n \in 1..Len(results) :
          /\ results[n].Diameter = TripleAt(n).Diameter
          /\ results[n].SDRType = TripleAt(n).SDRType
          /\ results[n].CrownDepth = TripleAt(n).CrownDepth

Ended == pc \in {"done", "raised"}

\* C5: for valid tables with D distinct diameters and N depths,
\* calculate_all_checks returns exactly D * 2 * N rows, one per triple, in the
\* nested order diameter, class (SDR11, SDR17), depth
C5_ReturnsOneRowPerTripleInOrder ==
    (IsGrid /\ ValidInput /\ Ended) => (pc = "done" /\ RowsInNestedOrder)

\* a scenario whose total vertical pressure is zero
ZeroPressure ==
    \E n \in 1..Len(depths) : depths[n] = ZERO /\ surcharges[n] = ZERO

\* the runs of calculate_all_checks that return do return the rows in that
\* order: the rows are missing only where the run raises
ReturnedRowsInNestedOrder ==
    (IsGrid /\ ValidInput /\ pc = "done") => RowsInNestedOrder

OnlyZeroPressureRaises ==
    (IsGrid /\ ValidInput /\ pc = "raised") =>
        (ZeroPressure /\ exc = "ZeroDivisionError")

\* a negative thickness, a zero diameter, or depth and surcharge sequences of
\* different lengths
InvalidInput ==
    \/ \E a \in 1..Len(in_diams) :
          in_diams[a] = 0 \/ in_s11[a].m < 0 \/ in_s17[a].m < 0
    \/ Len(depths) # Len(surcharges)

\* C6: on invalid input the engine raises before it computes any row and
\* returns no table
C6_InvalidInputRaisesBeforeAnyRow ==
    InvalidInput => (results = <<>> /\ pc # "done")

\* C9: when the total pressure of a scenario is zero the evaluators return a
\* fallback value and the run completes: no division error leaves the engine
C9_ZeroPressureFallsBack ==
    (ValidInput /\ ZeroPressure) => pc # "raised"

----------------------------------------------------------------------------
(* Properties of the pure functions                                        *)

Returned == pc = "returned"

WideTrench == DGt(call.args[1], DMul(D(43, -1), call.args[2]))

PositiveModuli == call.args[3].m > 0 /\ call.args[4].m > 0

\* C7: the soil-interaction factor is exactly 1.0 whenever
\* trenchWidth > 4.3 * pipeDiameter, for positive moduli, in every script
C7_WideTrenchGivesOne ==
    (Returned /\ call.fn = "leonhardt" /\ WideTrench /\ PositiveModuli) =>
        ret = DI(1)

ZeroDenominator ==
    LeonhardtDenom(call.args[1], call.args[2], call.args[3], call.args[4])
        = ZERO

\* C8: when the denominator of Leonhardt's relation is exactly zero the
\* soil-interaction factor is 1.0 and no division error is raised, in every
\* script
C8_ZeroDenominatorGivesOne ==
    (Returned /\ call.fn = "leonhardt" /\ ZeroDenominator) => ret = DI(1)

\* whether a returned overall status marks the scenario as failing, and the
\* percentage it reports
MarkedFailing(v, status) ==
    IF v = "ST" THEN status.status = "FAIL" ELSE DGt(status, DI(100))

Reported(v, status) == IF v = "ST" THEN status.pct ELSE status

\* C4: a scenario is marked as failing if and only if its governing
\* utilisation is strictly greater than 1.0; at exactly 1.0 it passes and
\* reports its own value, 100 %
C4_FailsIffAboveOne ==
    (Returned /\ call.fn = "overall_status") =>
        /\ MarkedFailing(variant, ret) <=> DGt(call.args[1], DI(1))
        /\ call.args[1] = DI(1) =>
               (~MarkedFailing(variant, ret)
                    /\ Reported(variant, ret) = DI(100))

C4_ExactlyOnePasses ==
    /\ Returned /\ call.fn = "overall_status"
    /\ call.args[1] = DI(1)
    /\ ~MarkedFailing(variant, ret)

DistinctDiameters ==
    \A a, b \in 1..Len(in_diams) : in_diams[a] = in_diams[b] => a = b

RoundTrip ==
    \A n \in 1..Len(in_diams) :
        ret.val[in_diams[n]] = <<in_s11[n], in_s17[n]>>

\* C10: the dictionary built from parallel sequences of pairwise distinct
\* diameters gives back, for every position n, the pair (sdr11[n], sdr17[n])
\* under the key diameters[n], SDR11 first
C10_RoundTripDistinct ==
    (Returned /\ call.fn = "make_pipe_dict" /\ DistinctDiameters) => RoundTrip

\* C10 as stated, for any parallel sequences
C10_RoundTrip ==
    (Returned /\ call.fn = "make_pipe_dict") => RoundTrip

C10_DistinctBuilt ==
    /\ Returned /\ call.fn = "make_pipe_dict"
    /\ Len(in_diams) >= 2 /\ DistinctDiameters
    /\ in_s11[1] # in_s11[2]
    /\ RoundTrip

----------------------------------------------------------------------------
(* The worked example: 110 mm, SDR11 (10.0 mm), depth 0.675 m, 690 kN/m2    *)

\* the row of the worked example in a run of FormerCalcTest.py
IsWorkedRow(r) ==
    /\ r.Diameter = 110 /\ r.SDRType = "SDR11" /\ r.Thickness = DI(10)
    /\ r.CrownDepth = D(675, -3)

WorkedExample ==
    /\ variant = "FCT" /\ results # <<>>
    /\ IsWorkedRow(LastRow)
    /\ surcharges[1] = DI(690)

\* C11: with the constants of FormerCalcTest.py the row of the worked example
\* has ovalisation 8.78 % (two decimals) and ovalisation utilisation 292.6 %
\* (one decimal)
C11_WorkedOvalisation ==
    WorkedExample =>
        /\ Round2(LastRow.Ovalisation) = D(878, -2)
        /\ Round1(LastRow.OvalisationUtil) = D(2926, -1)

\* what the row holds
C11_WorkedOvalisationComputed ==
    /\ WorkedExample
    /\ Round2(LastRow.Ovalisation) = D(905, -2)
    /\ Round1(LastRow.OvalisationUtil) = D(1810, -1)

\* the row of the worked example in a run of UtilisationExcel.py
UE_WorkedExample ==
    /\ variant = "UE" /\ results # <<>>
    /\ IsWorkedRow(LastRow)
    /\ surcharges[1] = DI(690)

\* C12: with the constants of UtilisationExcel.py the row for 110 mm, SDR11,
\* depth 0.675 m (surcharge 690) has ovalisation 8.78 % (two decimals) and
\* utilisation 292.6 % (one decimal)
C12_SelfCheckOvalisation ==
    UE_WorkedExample =>
        /\ Round2(LastRow.Ovalization) = D(878, -2)
        /\ Round1(LastRow.Utilization) = D(2926, -1)

C12_SelfCheckRow ==
    /\ UE_WorkedExample
    /\ pc = "depth"
    /\ Round2(LastRow.Ovalization) = D(878, -2)

\* C13: in the worked example of FormerCalcTest.py the reported overall
\* utilisation is the ovalisation utilisation of the row, 292.6 % to one
\* decimal: ovalisation governs and its own ratio is what is reported
C13_WorkedGoverning ==
    WorkedExample =>
        /\ LastRow.OverallUtil = LastRow.OvalisationUtil
        /\ Round1(LastRow.OverallUtil) = D(2926, -1)

\* what the row holds: ovalisation governs at 181.0 %, 101 is reported
C13_WorkedGoverningComputed ==
    /\ WorkedExample
    /\ loc.max_util = loc.oval_util
    /\ Round1(LastRow.OvalisationUtil) = D(1810, -1)
    /\ LastRow.OverallUtil = DI(101)

\* C14: in the worked example (no invert level, head = depth + OD/2) the
\* flotation utilisation of the row is 61.9 % to one decimal
C14_WorkedFlotation ==
    WorkedExample => Round1(LastRow.FlotationUtil) = D(619, -1)

\* what the row holds
C14_WorkedFlotationComputed ==
    /\ WorkedExample
    /\ Round1(LastRow.FlotationUtil) = D(576, -1)

\* the in-air buckling entry of a row is the missing marker
AirEntryAbsent(r) ==
    IF variant = "FCT" THEN r.BucklingAirUtil = NaN
    ELSE r.BucklingAir.status = "N/A"

\* the in-air buckling entry of a row is a number
AirEntryNumeric(r) ==
    IF variant = "FCT"
    THEN r.BucklingAirUtil # NaN /\ ~IsErr(r.BucklingAirUtil)
    ELSE r.BucklingAir.status \in {"PASS", "FAIL"}
         /\ ~IsErr(r.BucklingAir.pct)

\* C15: in every result row with depth >= 1.5 m the buckling-in-air entry is
\* the missing marker, never a number; in every row with depth < 1.5 m it is
\* a numeric utilisation
C15_AirEntryAbsentFromThreshold ==
    IsGrid =>
        \A n \in 1..Len(results) :
            IF DLt(results[n].CrownDepth, D(15, -1))
            THEN AirEntryNumeric(results[n]) /\ ~AirEntryAbsent(results[n])
            ELSE AirEntryAbsent(results[n]) /\ ~AirEntryNumeric(results[n])

\* a run with a row just below the threshold and a row at it
C15_RowsOnBothSides ==
    /\ IsGrid /\ pc = "done"
    /\ \E n, m \in 1..Len(results) :
          /\ results[n].CrownDepth = D(1375, -3)
          /\ AirEntryNumeric(results[n])
          /\ results[m].CrownDepth = D(15, -1)
          /\ AirEntryAbsent(results[m])

\* C16: pipe_stiffness is a pure function of its arguments: two calls with
\* the same (OD, t, modulus, perforated) return the same value, whatever the
\* order of the calls and whatever else the process holds
C16_StiffnessIsPure ==
    \A a, b \in 1..Len(ret) :
        ret[a].args = ret[b].args => ret[a].value = ret[b].value

\* StreamlitBS9295.py: the same perforated call before and after the sidebar
\* is edited
C16_SidebarChangesStiffness ==
    /\ variant = "ST" /\ Len(ret) = 2
    /\ ret[1].args = <<110, DI(10), DI(150), TRUE>>
    /\ ret[2].args = ret[1].args
    /\ params.perforation_red = D(5, -1)
    /\ ret[1].value # ret[2].value

\* a thickness is positive and strictly less than half the diameter
IsPipeSize(d, t) == DGt(t, ZERO) /\ DLt(t, DDiv(DI(d), DI(2)))

\* C17: the shipped tables hold no diameter twice, at every position both
\* thicknesses are positive and strictly less than half the diameter, and
\* the mean diameter OD - t is strictly positive for every pair the engine
\* iterates
C17_ShippedTablesArePipeSizes ==
    /\ \A a, b \in 1..Len(in_diams) : in_diams[a] = in_diams[b] => a = b
    /\ Len(in_s11) = Len(in_diams) /\ Len(in_s17) = Len(in_diams)
    /\ \A a \in 1..Len(in_diams) :
          IsPipeSize(in_diams[a], in_s11[a]) /\ IsPipeSize(in_diams[a], in_s17[a])
    /\ (pc \in {"sdr", "depth"} /\ j <= 1) =>
           DGt(PS_MD(DI(CurDia), CurThickness), ZERO)

\* the last pair of the shipped tables has been iterated
C17_LastShippedPair ==
    /\ in_diams = diameters
    /\ pc = "depth" /\ i = Len(diameters) /\ j = 1 /\ k > Len(depths)
    /\ LastRow.Diameter = diameters[Len(diameters)]
    /\ DGt(PS_MD(DI(CurDia), CurThickness), ZERO)

\* C18: a run of calculate_all_checks leaves its inputs unchanged: at every
\* step of the run the pipe dictionary, the depth sequence, the surcharge
\* sequence and the design parameters are what they were before the step
C18_RunLeavesInputsUnchanged ==
    [][(IsGrid /\ pc \in {"dia", "sdr", "depth"}) =>
           /\ pipe_dict' = pipe_dict
           /\ depths' = depths
           /\ surcharges' = surcharges
           /\ params' = params
           /\ variant' = variant]_vars

\* a run over two pipes and two depths has returned its rows, and the
\* dictionary and the sequences are still those it was called with
C18_RunReturned ==
    /\ IsGrid /\ pc = "done"
    /\ Len(results) = 8
    /\ pipe_dict = make_pipe_dict(in_diams, in_s11, in_s17)
    /\ Len(depths) = 2 /\ Len(surcharges) >= 2
    /\ params = Sidebar(variant)

\* soilDensity * depth + surcharge
FullPressure(soil_density, depth, surcharge) ==
    DAdd(DMul(soil_density, depth), surcharge)

\* the position in the depth sequence of the row appended last
LastPosition == ((Len(results) - 1) % Len(depths)) + 1

\* C19: in every script the total vertical pressure of the scenario at
\* position n is soilDensity * depth[n] + surcharge[n]: the surcharge of the
\* same position, and the soil term with no further scaling
C19_TotalPressureIsSoilPlusSurcharge ==
    results # <<>> =>
        IF variant = "P2E"
        THEN \A n \in 1..Len(loc.pressures) :
                 loc.pressures[n] =
                     FullPressure(P2E_Const.SOIL_DENSITY, depths[n],
                                  surcharges[n])
        ELSE loc.total_pressure =
                 FullPressure(Const(variant).soil_density,
                              depths[LastPosition], surcharges[LastPosition])

\* Pipe2Excel.py at 0.675 m under 690 kN/m2: 690.0132, not 703.23
C19_SoilTermScaledDown ==
    /\ variant = "P2E" /\ results # <<>>
    /\ Len(loc.pressures) >= 1
    /\ depths[1] = D(675, -3) /\ surcharges[1] = DI(690)
    /\ loc.pressures[1] = D(6900132, -4)
    /\ FullPressure(P2E_Const.SOIL_DENSITY, depths[1], surcharges[1]) = D(70323, -2)

\* FormerCalcTest.py and StreamlitBS9295.py use the full soil term
C19_GridUsesFullSoilTerm ==
    (IsGrid /\ results # <<>>) =>
        loc.total_pressure =
            FullPressure(Const(variant).soil_density, depths[LastPosition],
                         surcharges[LastPosition])

\* initial + (coeff * lag * pressure) / (8 * stiffness + 0.061 * modulus) * 100
OvalFormula(initial, coeff, lag, pressure, stiff, modulus) ==
    DAdd(initial,
         DMul(DDiv(DMul(DMul(coeff, lag), pressure),
                   DAdd(DMul(DI(8), stiff), DMul(D(61, -3), modulus))),
              DI(100)))

\* a row of the current class has been appended: loc, sloc and dloc belong
\* to the same scenario
RowOfCurrentClass == IsGrid /\ pc = "depth" /\ k > 1

\* Pipe2Excel.py: the entry of class j - 1 has been stored
PairOfCurrentDiameter == variant = "P2E" /\ pc = "sdr" /\ j >= 1

\* FormerCalcTest.py and StreamlitBS9295.py evaluate the formula with the
\* configured coefficient, lag and limit
GridOvalisationFollowsFormula ==
    RowOfCurrentClass =>
        /\ loc.oval_percent =
               OvalFormula(Const(variant).INITIAL_OVAL[j],
                           Const(variant).deflection_coeff,
                           Const(variant).deflection_lag,
                           loc.total_pressure, sloc.stiff_kN, dloc.E_eff)
        /\ loc.oval_util = DDiv(loc.oval_percent, Const(variant).oval_limit)

\* Pipe2Excel.py has no lag and no limit constant: a lag of 1 and its
\* normalisation to 3 % are taken as the configured ones
P2E_OvalisationFollowsFormula ==
    PairOfCurrentDiameter =>
        \A n \in 1..Len(loc.oval_factors) :
            loc.oval_factors[n] =
                DDiv(OvalFormula(P2E_Const.INITIAL_OVAL[j - 1],
                                 P2E_Const.DEFLECTION_COEFF, DI(1),
                                 loc.pressures[n], loc.stiff,
                                 dloc.eff_soil_mod),
                     DI(3))

\* C20: in every script the ovalisation evaluator returns
\* initial[class] + (coeff * lag * pressure) / (8*stiffness + 0.061*modulus)
\* * 100, and the ovalisation utilisation is that value divided by the
\* configured limit
C20_OvalisationFollowsFormula ==
    GridOvalisationFollowsFormula /\ P2E_OvalisationFollowsFormula

\* Pipe2Excel.py leaves out the factor 100
C20_FactorHundredMissing ==
    /\ PairOfCurrentDiameter
    /\ Len(loc.oval_factors) >= 1
    /\ ~IsErr(loc.raised)
    /\ loc.oval_factors[1] =
           P2E_ovalisation(P2E_Const.DEFLECTION_COEFF, loc.pressures[1],
                           loc.stiff, dloc.eff_soil_mod, j - 1)
    /\ loc.oval_factors[1] #
           DDiv(OvalFormula(P2E_Const.INITIAL_OVAL[j - 1],
                            P2E_Const.DEFLECTION_COEFF, DI(1),
                            loc.pressures[1], loc.stiff, dloc.eff_soil_mod),
                DI(3))

\* minimumFOS / FOS with 1/FOS = soil/criticalLong + surcharge/criticalShort
SoilBucklingFormula(fos_min, soil_pressure, surcharge, critical_long, critical_short) ==
    DDiv(fos_min,
         DDiv(DI(1), DAdd(DDiv(soil_pressure, critical_long),
                          DDiv(surcharge, critical_short))))

\* FormerCalcTest.py and StreamlitBS9295.py: the soil-confined check of the
\* row appended last follows the formula, with the unperforated long-term
\* stiffness in the soil term and the short-term one in the surcharge term,
\* and is a term of the governing maximum
GridSoilBucklingGoverns ==
    RowOfCurrentClass =>
        /\ loc.buckling_soil_util =
               SoilBucklingFormula(
                   Const(variant).BUCKLING_FOS_MIN,
                   DMul(Const(variant).soil_density, depths[k - 1]),
                   surcharges[k - 1],
                   DMul(P_cr(dloc.E_eff, pipe_stiffness(variant, DI(CurDia), CurThickness, Const(variant).long_modulus, FALSE)), DI(1000)),
                   DMul(P_cr(dloc.E_eff, pipe_stiffness(variant, DI(CurDia), CurThickness, Const(variant).short_modulus, FALSE)), DI(1000)))
        /\ \E n \in 1..Len(loc.util_checks) :
               loc.util_checks[n] = loc.buckling_soil_util
        /\ DGe(loc.max_util, loc.buckling_soil_util)

\* Pipe2Excel.py: the soil-confined utilisation 1/buck_safety of every
\* scenario is a term of the maximum stored for it
P2E_SoilBucklingGoverns ==
    PairOfCurrentDiameter =>
        \A n \in 1..Len(loc.utils) :
            DGe(loc.utils[n], InvOr999(loc.buck_safety[n]))

\* C21: the soil-confined buckling check is evaluated for every scenario
\* whatever the depth, as minimumFOS / FOS with
\* 1/FOS = soilPressure/criticalLong + surcharge/criticalShort, and its
\* utilisation is always a term of the governing maximum
C21_SoilBucklingAlwaysGoverns ==
    GridSoilBucklingGoverns /\ P2E_SoilBucklingGoverns

\* Pipe2Excel.py stores a maximum below the soil-confined utilisation
C21_SoilBucklingLeftOut ==
    /\ PairOfCurrentDiameter
    /\ Len(loc.utils) >= 1
    /\ loc.key = <<110, "SDR11">>
    /\ depths[1] = D(675, -3)
    /\ DLt(loc.utils[1], InvOr999(loc.buck_safety[1]))

\* minimumFOS / safetyFactor with safetyFactor = critical / totalPressure and
\* critical = 24 * stiffness (kN/m2)
AirBucklingFormula(fos_min, stiff, total_pressure) ==
    DDiv(fos_min, DDiv(DMul(DMul(DI(24), stiff), DI(1000)), total_pressure))

\* FormerCalcTest.py and StreamlitBS9295.py, rows below 1.5 m: the in-air
\* check uses the unperforated short-term stiffness
GridAirBucklingFollowsFormula ==
    (RowOfCurrentClass /\ DLt(depths[k - 1], D(15, -1))) =>
        loc.buckling_air_util =
            AirBucklingFormula(
                Const(variant).BUCKLING_FOS_MIN_AIR,
                pipe_stiffness(variant, DI(CurDia), CurThickness, Const(variant).short_modulus, FALSE),
                loc.total_pressure)

\* Pipe2Excel.py: the in-air utilisation 1/crit of every scenario, with the
\* short-term modulus and the minimum factor 1.5 of the other scripts
P2E_AirBucklingFollowsFormula ==
    (PairOfCurrentDiameter /\ ~IsErr(loc.raised)) =>
        \A n \in 1..Len(loc.buck_crit_safety) :
            InvOr999(loc.buck_crit_safety[n]) =
                AirBucklingFormula(
                    FCT_Const.BUCKLING_FOS_MIN_AIR,
                    pipe_stiffness("FCT", DI(loc.key[1]), pipe_dict.val[loc.key[1]][j], FCT_Const.short_modulus, FALSE),
                    loc.pressures[n])

\* C22: in every script that evaluates it the unconfined buckling check uses
\* criticalPressure = 24 * stiffness with the short-term modulus and no
\* perforation reduction, safetyFactor = criticalPressure / totalPressure
\* and utilisation = minimumFOS_air / safetyFactor
C22_AirBucklingFollowsFormula ==
    GridAirBucklingFollowsFormula /\ P2E_AirBucklingFollowsFormula

\* Pipe2Excel.py, (110, SDR11): the critical pressure is 2253.9 kN/m2, from
\* modulus 150 with thickness^4 / OD^3, where 24 * stiffness gives 1600
C22_CriticalPressureFromLongModulus ==
    /\ PairOfCurrentDiameter
    /\ loc.key = <<110, "SDR11">>
    /\ pipe_dict.val[110][1] = DI(10)
    /\ Round1(UT_pbuck_crit(110, DI(10))) = D(22539, -1)
    /\ DMul(DMul(DI(24), pipe_stiffness("FCT", DI(110), DI(10), FCT_Const.short_modulus, FALSE)), DI(1000)) = DI(1600)

\* upliftForce / downwardForce per metre run
FlotationFormula(c, head, depth, pipe_weight, OD_m) ==
    DDiv(DMul(DMul(DMul(c.gamma_uf, c.water_density), head), OD_m),
         DMul(c.gamma_f,
              DAdd(pipe_weight, DMul(DMul(c.soil_density, depth), OD_m))))

\* depth + OD/2, in metres
FallbackHead(depth, OD_m) == DAdd(depth, DDiv(OD_m, DI(2)))

\* FormerCalcTest.py and StreamlitBS9295.py: the flotation utilisation of the
\* row appended last
GridFlotationFollowsFormula ==
    RowOfCurrentClass =>
        loc.flotation_util =
            FlotationFormula(Const(variant),
                             FallbackHead(depths[k - 1], DDiv(DI(CurDia), DI(1000))),
                             depths[k - 1], sloc.pipe_weight,
                             DDiv(DI(CurDia), DI(1000)))

\* Pipe2Excel.py: the flotation term 1/flot of every scenario, with the
\* partial factors of the other scripts
P2E_FlotationFollowsFormula ==
    PairOfCurrentDiameter =>
        \A n \in 1..Len(loc.flotation_safety) :
            InvOr999(loc.flotation_safety[n]) =
                FlotationFormula(FCT_Const,
                                 FallbackHead(depths[n], DDiv(DI(loc.key[1]), DI(1000))),
                                 depths[n], P2E_Const.PIPE_WEIGHT[j - 1],
                                 DDiv(DI(loc.key[1]), DI(1000)))

\* C23: in every script that feeds flotation into the governing maximum the
\* flotation utilisation is upliftForce / downwardForce, with
\* upliftForce = gamma_uf * waterDensity * waterHead * OD and
\* downwardForce = gamma_f * (pipeWeight + soilDensity * depth * OD)
C23_FlotationIsUpliftOverDownward ==
    GridFlotationFollowsFormula /\ P2E_FlotationFollowsFormula

\* Pipe2Excel.py, (110, SDR11) at 0.675 m: the term is the weight of the
\* water the pipe displaces over the buoyant soil weight plus pipe weight
C23_DisplacedWaterOverBuoyantSoil ==
    /\ PairOfCurrentDiameter
    /\ loc.key = <<110, "SDR11">>
    /\ depths[1] = D(675, -3)
    /\ loc.flotation_safety[1] = flotation(DI(110), depths[1], 0)
    /\ InvOr999(loc.flotation_safety[1]) #
           FlotationFormula(FCT_Const, FallbackHead(depths[1], D(11, -2)),
                            depths[1], P2E_Const.PIPE_WEIGHT[0], D(11, -2))

\* a call of calculate_flotation has returned
FlotationReturned == pc = "returned" /\ call.fn = "calculate_flotation"

\* the head the claim gives a call: the invert level if one is supplied
SuppliedOrFallback(depth, invert_level, OD_m) ==
    IF invert_level # None THEN invert_level ELSE FallbackHead(depth, OD_m)

\* C24: calculate_flotation takes the supplied invert level as the water
\* head whenever one is supplied (0 included) and depth + OD/2 when none
\* is; the engine calls it without one, so every row uses the fallback head
C24_HeadIsInvertLevelOrFallback ==
    /\ FlotationReturned =>
           ret = DMul(FlotationFormula(
                          Const(variant),
                          SuppliedOrFallback(call.args[2], call.args[4], DDiv(DI(call.args[1]), DI(1000))),
                          call.args[2], call.args[3],
                          DDiv(DI(call.args[1]), DI(1000))),
                      DI(100))
    /\ GridFlotationFollowsFormula

\* a call with invert level 0 has returned: no head, no uplift
C24_InvertLevelZero ==
    /\ FlotationReturned
    /\ call.args[4] = ZERO
    /\ ret = ZERO

\* modulus * (thickness^3 / 12) / (outerDiameter - thickness)^3
WallStiffness(modulus, t, OD) ==
    DDiv(DMul(modulus, DDiv(DPowInt(t, 3), DI(12))), DPowInt(DSub(OD, t), 3))

\* FormerCalcTest.py and StreamlitBS9295.py: the stiffnesses of the current
\* class, perforated (stiff_val) and not (stiff_buck_long)
GridStiffnessFollowsFormula ==
    RowOfCurrentClass =>
        /\ sloc.stiff_buck_long =
               WallStiffness(Const(variant).long_modulus, CurThickness, DI(CurDia))
        /\ sloc.stiff_buck_short =
               WallStiffness(Const(variant).short_modulus, CurThickness, DI(CurDia))
        /\ sloc.stiff_val =
               DMul(WallStiffness(Const(variant).long_modulus, CurThickness, DI(CurDia)),
                    Const(variant).perforation_red)
        /\ DLt(Const(variant).perforation_red, DI(1))
        /\ DLt(sloc.stiff_val, sloc.stiff_buck_long)

\* Pipe2Excel.py: the unperforated stiffness of the entry stored last
P2E_StiffnessFollowsFormula ==
    PairOfCurrentDiameter =>
        loc.stiff = WallStiffness(P2E_Const.PIPE_MODULUS,
                                  pipe_dict.val[loc.key[1]][j],
                                  DI(loc.key[1]))

\* C25: in every script the wall stiffness is
\* modulus * (thickness^3 / 12) / (outerDiameter - thickness)^3 without
\* perforation and that value times the reduction factor (< 1) with it, so
\* the perforated stiffness is strictly the smaller one
C25_StiffnessFollowsFormula ==
    GridStiffnessFollowsFormula /\ P2E_StiffnessFollowsFormula

\* Pipe2Excel.py, (110, SDR11): modulus * (t^4 / 12) / OD^3 = 0.0939, where
\* the formula gives 0.0125
C25_FourthPowerOverOuterDiameter ==
    /\ PairOfCurrentDiameter
    /\ loc.key = <<110, "SDR11">>
    /\ pipe_dict.val[110][1] = DI(10)
    /\ loc.stiff = stiffness(DI(110), DI(10), FALSE)
    /\ Round2(DMul(loc.stiff, DI(100))) = D(939, -2)
    /\ WallStiffness(P2E_Const.PIPE_MODULUS, DI(10), DI(110)) = D(125, -4)

\* 0.6 * stiffness^(1/3) * effectiveSoilModulus^(2/3)
CriticalFormula(stiff, modulus) ==
    DMul(DMul(D(6, -1), DPow(stiff, 1, 3)), DPow(modulus, 2, 3))

\* FormerCalcTest.py and StreamlitBS9295.py: the soil-confined utilisation of
\* the row appended last, from the critical pressures of the formula
GridCriticalPressureFollowsFormula ==
    RowOfCurrentClass =>
        loc.buckling_soil_util =
            SoilBucklingFormula(
                Const(variant).BUCKLING_FOS_MIN,
                loc.soil_pressure, surcharges[k - 1],
                DMul(CriticalFormula(sloc.stiff_buck_long, DDiv(dloc.E_eff, DI(1000))), DI(1000)),
                DMul(CriticalFormula(sloc.stiff_buck_short, DDiv(dloc.E_eff, DI(1000))), DI(1000)))

\* Pipe2Excel.py: the buckling safety factors of the entry stored last
P2E_CriticalPressureFollowsFormula ==
    PairOfCurrentDiameter =>
        \A n \in 1..Len(loc.buck_safety) :
            loc.buck_safety[n] =
                DDiv(CriticalFormula(loc.stiff, dloc.eff_soil_mod),
                     loc.pressures[n])

\* C26: in every script that computes it the critical buckling pressure
\* with soil support is 0.6 * stiffness^(1/3) * effectiveSoilModulus^(2/3),
\* the exponents exactly one third and two thirds
C26_CriticalPressureFollowsFormula ==
    GridCriticalPressureFollowsFormula /\ P2E_CriticalPressureFollowsFormula

\* FormerCalcTest.py, (110, SDR11): exponents 0.67 and 0.33 give 0.69 MN/m2
\* for the long-term stiffness, where the formula gives 0.68
C26_RoundedExponents ==
    /\ variant = "FCT" /\ RowOfCurrentClass
    /\ CurDia = 110 /\ CurThickness = DI(10)
    /\ Round2(P_cr(dloc.E_eff, sloc.stiff_buck_long)) = D(69, -2)
    /\ Round2(CriticalFormula(sloc.stiff_buck_long, DDiv(dloc.E_eff, DI(1000)))) = D(68, -2)

\* Pipe2Excel.py, (110, SDR11): the modulus enters with exponent 1, 2.73
\* where the formula gives 1.27
C26_ModulusUnderBothRoots ==
    /\ PairOfCurrentDiameter
    /\ loc.key = <<110, "SDR11">>
    /\ pipe_dict.val[110][1] = DI(10)
    /\ Round2(BK_buck_res(loc.stiff, dloc.eff_soil_mod)) = D(273, -2)
    /\ Round2(CriticalFormula(loc.stiff, dloc.eff_soil_mod)) = D(127, -2)

\* what a class label stands for: the index of its initial ovalisation and
\* pipe weight, and its thickness sequence
ClassIndex(label) == IF label = "SDR11" THEN 0 ELSE 1
ClassThicknesses(label) == IF label = "SDR11" THEN in_s11 ELSE in_s17

\* the thickness is the one the label's sequence holds at a position of the
\* diameter
ThicknessOfClass(dia, label, thickness) ==
    \E n \in 1..Len(in_diams) :
        /\ in_diams[n] = dia
        /\ n <= Len(ClassThicknesses(label))
        /\ ClassThicknesses(label)[n] = thickness

\* FormerCalcTest.py and StreamlitBS9295.py: the row appended last, by its
\* label
GridRowAlignedWithLabel ==
    RowOfCurrentClass =>
        /\ LastRow.SDRType \in {"SDR11", "SDR17"}
        /\ LastRow.Diameter = CurDia
        /\ ThicknessOfClass(CurDia, LastRow.SDRType, CurThickness)
        /\ variant = "FCT" => LastRow.Thickness = CurThickness
        /\ sloc.stiff_val =
               pipe_stiffness(variant, DI(CurDia), CurThickness, Const(variant).long_modulus, TRUE)
        /\ sloc.pipe_weight = PipeWeight(variant, CurDia, LastRow.SDRType)
        /\ loc.flotation_util =
               FlotationFormula(Const(variant),
                                FallbackHead(depths[k - 1], DDiv(DI(CurDia), DI(1000))),
                                depths[k - 1],
                                PipeWeight(variant, CurDia, LastRow.SDRType),
                                DDiv(DI(CurDia), DI(1000)))
        /\ loc.oval_percent =
               OvalFormula(Const(variant).INITIAL_OVAL[ClassIndex(LastRow.SDRType)],
                           Const(variant).deflection_coeff,
                           Const(variant).deflection_lag,
                           loc.total_pressure, sloc.stiff_kN, dloc.E_eff)
        /\ LastRow.Ovalisation =
               IF variant = "FCT" THEN loc.oval_percent
               ELSE PassFail(loc.oval_util, loc.oval_percent)

\* Pipe2Excel.py: the entry stored last, by the label in its key
P2E_EntryAlignedWithLabel ==
    PairOfCurrentDiameter =>
        /\ LastRow.key = loc.key
        /\ loc.key[2] \in {"SDR11", "SDR17"}
        /\ ThicknessOfClass(loc.key[1], loc.key[2], pipe_dict.val[loc.key[1]][j])
        /\ loc.stiff = stiffness(DI(loc.key[1]), pipe_dict.val[loc.key[1]][j], FALSE)
        /\ \A n \in 1..Len(loc.oval_factors) :
               loc.oval_factors[n] =
                   P2E_ovalisation(P2E_Const.DEFLECTION_COEFF, loc.pressures[n], loc.stiff, dloc.eff_soil_mod, ClassIndex(loc.key[2]))
        /\ \A n \in 1..Len(loc.flotation_safety) :
               loc.flotation_safety[n] =
                   flotation(DI(loc.key[1]), depths[n], ClassIndex(loc.key[2]))

\* C27: every row labelled "SDR11" is computed from the sdr11 thickness of
\* its diameter, the SDR11 pipe weight and initial ovalisation 0, every row
\* labelled "SDR17" from the sdr17 thickness, the SDR17 weight and initial
\* ovalisation 1; no row mixes a label with another class's values
C27_RowAlignedWithLabel ==
    GridRowAlignedWithLabel /\ P2E_EntryAlignedWithLabel

\* both classes of a diameter have produced a row, from different
\* thicknesses
C27_BothClassesOfADiameter ==
    /\ RowOfCurrentClass
    /\ j = 1 /\ Len(results) >= 2
    /\ LastRow.SDRType = "SDR17"
    /\ results[Len(results) - Len(depths)].SDRType = "SDR11"
    /\ results[Len(results) - Len(depths)].Diameter = CurDia
    /\ pipe_dict.val[CurDia][1] # pipe_dict.val[CurDia][2]

\* the Leonhardt denominator for a trench 300 mm wider than the pipe
TrenchDenom(dia, E_soil, E_embed) ==
    LeonhardtDenom(DI(dia + 300), DI(dia), E_soil, E_embed)

\* the moduli of the run are strictly positive
PositiveModuliOfRun ==
    /\ DGt(Const(variant).soil_modulus, ZERO)
    /\ DGt(Const(variant).embed_modulus, ZERO)

\* C28: for every shipped diameter, trench width diameter + 300 and strictly
\* positive moduli the Leonhardt denominator is strictly positive, so the
\* engine never takes the zero-denominator fallback and the effective soil
\* modulus of every row is strictly positive
C28_DenominatorPositiveOnShippedTable ==
    PositiveModuliOfRun =>
        /\ \A n \in 1..Len(diameters) :
               DGt(TrenchDenom(diameters[n], Const(variant).soil_modulus, Const(variant).embed_modulus), ZERO)
        /\ pc \in {"sdr", "depth"} =>
               /\ dloc.C_L =
                      DDiv(LeonhardtNum(DI(CurDia + 300), DI(CurDia)),
                           TrenchDenom(CurDia, Const(variant).soil_modulus, Const(variant).embed_modulus))
               /\ DGt(dloc.E_eff, ZERO)

\* the narrowest pipe under the stiffest native soil: the last row of the
\* 110 mm pipe is in, with a positive effective modulus
C28_StiffSoilNarrowPipe ==
    /\ variant = "ST"
    /\ params.soil_modulus = DI(500) /\ params.embed_modulus = D(1, -1)
    /\ pc = "depth" /\ k > 1 /\ CurDia = 110 /\ j = 1
    /\ DGt(dloc.E_eff, ZERO)
    /\ DGt(TrenchDenom(110, params.soil_modulus, params.embed_modulus), ZERO)

\* the body has been evaluated under both surcharges, without an exception
LoadEvaluated ==
    /\ pc = "returned" /\ call.fn = "depth_body"
    /\ ~IsErr(DepthRaised(ret[1])) /\ ~IsErr(DepthRaised(ret[2]))

\* C29: for a fixed diameter, class and depth with positive stiffness and
\* positive effective soil modulus, a larger surcharge never decreases the
\* ovalisation, buckling-in-air, buckling-with-soil or governing
\* utilisation, and leaves the flotation utilisation unchanged
C29_UtilisationsMonotoneInSurcharge ==
    LoadEvaluated =>
        /\ DLe(ret[1].oval_util, ret[2].oval_util)
        /\ DLe(ret[1].buckling_air_util, ret[2].buckling_air_util)
        /\ DLe(ret[1].buckling_soil_util, ret[2].buckling_soil_util)
        /\ DLe(ret[1].max_util, ret[2].max_util)
        /\ ret[1].flotation_util = ret[2].flotation_util

\* the shipped 110 mm SDR11 pipe at 0.675 m under 75 and 690 kN/m2: the
\* three load-dependent utilisations and the governing one all rise
C29_HeavierSurchargeRaisesUtilisations ==
    /\ LoadEvaluated
    /\ call.args = <<110, DI(10), 0, D(675, -3), DI(75), DI(690)>>
    /\ DLt(ret[1].oval_util, ret[2].oval_util)
    /\ DLt(ret[1].buckling_air_util, ret[2].buckling_air_util)
    /\ DLt(ret[1].buckling_soil_util, ret[2].buckling_soil_util)
    /\ DLt(ret[1].max_util, ret[2].max_util)
    /\ DGt(ret[1].flotation_util, ZERO)

\* the individual displays of a StreamlitBS9295.py row that apply at its
\* depth
ApplicableDisplays(r) ==
    {r.Ovalisation, r.Flotation, r.BucklingSoil}
        \cup (IF DLt(r.CrownDepth, D(15, -1)) THEN {r.BucklingAir} ELSE {})

\* C30: in StreamlitBS9295.py the overall status of a row is a PASS string
\* if and only if none of its applicable check displays is a FAIL string; a
\* row at depth >= 1.5 m with the in-air entry "N/A" is never failed because
\* of that entry
C30_PassIffNoApplicableFail ==
    variant = "ST" =>
        \A n \in 1..Len(results) :
            /\ results[n].OverallStatus.status \in {"PASS", "FAIL"}
            /\ results[n].OverallStatus.status = "PASS" <=>
                   (\A d \in ApplicableDisplays(results[n]) : d.status # "FAIL")
            /\ \A d \in ApplicableDisplays(results[n]) :
                   d.status \in {"PASS", "FAIL"}

\* a passing row at 1.5 m or below it with the in-air entry "N/A", and a
\* failing row above 1.5 m, in one run
C30_PassWithoutAirEntry ==
    /\ variant = "ST"
    /\ \E n, m \in 1..Len(results) :
          /\ DGe(results[n].CrownDepth, D(15, -1))
          /\ results[n].BucklingAir.status = "N/A"
          /\ results[n].OverallStatus.status = "PASS"
          /\ DLt(results[m].CrownDepth, D(15, -1))
          /\ results[m].OverallStatus.status = "FAIL"

====
